---- MODULE Spec2Model ----
(***************************************************************************)
(* Model of the batch orchestration engine of SAP-BOT-CurrencyER:          *)
(*   services/runner.py   BatchRunner.run_force_all_done and               *)
(*                        BatchRunner._run_multithread_once                *)
(*   services/worker.py   chunk_evenly, worker_process                     *)
(*   services/tracking.py init_tracking_files, mark_item_status,           *)
(*                        iter_pending_items, pending_rows_for_report      *)
(*   services/commit.py   commit_gate and the key-lock registry            *)
(*                                                                         *)
(* An item is identified by its 1-based position in the batch, which is    *)
(* also used as its payload, so a row or tracker entry that carries the    *)
(* payload p was built from the p-th item of the batch.                    *)
(***************************************************************************)
EXTENDS Integers, Sequences, FiniteSets, TLC

(* ---------------------------- bounds ----------------------------------- *)
MaxItems == 3
MaxWorkers == 2
MaxRounds == 2
NumThreads == 3
MaxCommitConcurrency == 2
TrackItems == 2
MaxChunkItems == 5
MaxLoginConcurrency == 2
MaxLoginItems == 1
MaxArchCalls == 2
MaxDailyBatches == 2
MaxRollupLines == 3
MaxSessItems == 2

(* Python's None, for an index or a payload that is absent *)
None == 0

VARIABLES
    (* ---- BatchRunner.run_force_all_done ---- *)
    total,              \* len(items)
    workers,            \* self.workers
    rpc,                \* position of the coordinator thread
    round_no,
    pending,            \* list of (orig_idx, item); item == orig position
    aggregate_results,  \* dict orig_idx -> row
    result,             \* the dict returned by run_force_all_done
    (* ---- BatchRunner._run_multithread_once ---- *)
    shards,
    (* ---- tracking files ---- *)
    track_files,        \* worker ids whose driver-<id>.json exists
    tracker,            \* worker id -> doc["items"]
    (* ---- worker_process, one per shard ---- *)
    wpc,
    pending_list,
    wpos,
    results,
    attempted,          \* history: items handed to _do_one by each worker in this round
    (* ---- services/commit.py ---- *)
    commit_concurrency, \* _COMMIT_CONCURRENCY
    sem,                \* free permits of _GLOBAL_SEM
    key_locks,          \* _KEY_LOCKS: token -> [lock, refcount]
    lock_holder,        \* lock object -> holding thread (None when free)
    gpc,                \* position of each commit_gate caller
    gkey,               \* normalized_key of each caller
    glock,              \* key_lock of each caller
    gexc,               \* the guarded body of the caller's last call raised
    (* ---- one attempt: page.create_rate called by _do_one ---- *)
    apc,                \* position of each caller inside the attempt
    ares,               \* what the caller's last attempt returned or raised
    (* ---- worker_process: the loop over one item, as a function ---- *)
    item_pc,
    item_att,           \* what the successive calls of _do_one do
    item_reopen_ok,     \* whether _recreate_driver_and_reopen succeeds
    item_effect,        \* the row, the tracker mark or the exception of the item
    item_rows,          \* rows appended to results for the item
    (* ---- tracking._save_tracking_atomic / _load_tracking ---- *)
    path_file,          \* the content of driver-<w>.json
    tmp_file,           \* the content of driver-<w>.json.tmp
    save_pc,            \* position of the writing thread in _save_tracking_atomic
    save_doc,           \* the doc handed to _save_tracking_atomic
    loaded,             \* what the last _load_tracking(path) of a reader found
    (* ---- worker_process and login_sem (the login throttle of a round) ---- *)
    login_cap,          \* LOGIN_CONCURRENCY, the initial value of login_sem
    login_sem,          \* permits left in login_sem
    lpc,                \* position of each worker
    lleft,              \* items of pending_list the worker has not finished
    lre,                \* the worker is in a rebuild for its current item
    (* ---- tracking.move_live_to_finished ---- *)
    arch_live,          \* Live/<batch_id>: its driver-<w>.json files, or NoDir
    arch_finished,      \* Finished/<day>/<batch_id>, or NoDir
    arch_report,        \* "reason" of the last call's report, "moved" when ok
    arch_n,             \* calls of move_live_to_finished so far
    (* ---- reporting.append_daily_rollup / rebuild_daily_final, prune_live_trackers_keep_last_n ---- *)
    rollup,             \* the lines of reports/daily/<day>/rollup.ndjson
    final_totals,       \* the totals of reports/daily/<day>/final.json
    live_dirs,          \* the batch directories under Live, newest first
    daily_last,         \* the last operation performed and its arguments
    (* ---- worker_process: its session, its watchdog timers, the stop signal ---- *)
    spc,                \* position of the worker thread
    sdrv,               \* the worker's variable drv: a session, or None
    spage,              \* the session the worker's page object drives, or None
    sopen,              \* the sessions (browsers) that are open
    sleft,              \* items of pending_list not yet finished
    sretry,             \* the current item is in its recover path
    shung,              \* the current call of _do_one hangs
    srows,              \* rows appended to results
    stimers,            \* the watchdog timer of each call of _do_one
    stop_event,         \* the shared stop signal
    sraised,            \* an exception left worker_process
    snext               \* the next session get_driver opens

batch_vars == <<total, workers, rpc, round_no, pending, aggregate_results, result,
                shards, track_files, tracker,
                wpc, pending_list, wpos, results, attempted>>
gate_vars == <<commit_concurrency, sem, key_locks, lock_holder, gpc, gkey, glock, gexc>>
attempt_vars == <<apc, ares>>
item_vars == <<item_pc, item_att, item_reopen_ok, item_effect, item_rows>>
save_vars == <<path_file, tmp_file, save_pc, save_doc, loaded>>
login_vars == <<login_cap, login_sem, lpc, lleft, lre>>
arch_vars == <<arch_live, arch_finished, arch_report, arch_n>>
daily_vars == <<rollup, final_totals, live_dirs, daily_last>>
sess_vars == <<spc, sdrv, spage, sopen, sleft, sretry, shung, srows, stimers, stop_event, sraised, snext>>
aux_vars == <<save_vars, login_vars, arch_vars, daily_vars, sess_vars>>
vars == <<batch_vars, gate_vars, attempt_vars, item_vars, aux_vars>>

(* ------------------------- small helpers -------------------------------- *)
Min(a, b) == IF a < b THEN a ELSE b

Max(a, b) == IF a > b THEN a ELSE b

(* str.lower() on the status tokens that occur *)
Lower(s) ==
    CASE s = "Pending" -> "pending"
      [] s = "Done" -> "done"
      [] s = "Skipped" -> "skipped"
      [] s = "Error" -> "error"
      [] s = "Created" -> "created"
      [] OTHER -> s

(* a result row: its "index", "payload" and "status" keys.  The other keys *)
(* of a row (error, dialog_text, notes, worker, round) are carried along   *)
(* by the coordinator and never read by it; they are left out.             *)
Row(idx, payload, status) == [index |-> idx, payload |-> payload, status |-> status]

(* ------------------------- worker.chunk_evenly -------------------------- *)
RECURSIVE ChunkLoop(_, _, _, _, _, _, _)
ChunkLoop(indexed, i, n, k, m, start, chunks) ==
    IF i >= n THEN chunks
    ELSE LET end == start + k + (IF i < m THEN 1 ELSE 0)
         IN ChunkLoop(indexed, i + 1, n, k, m, end,
                      IF start < end
                      THEN Append(chunks, SubSeq(indexed, start + 1, end))
                      ELSE chunks)

(* the remainder of the division is dropped: every chunk has k items *)
chunk_evenly_NoRemainder(indexed, nworkers) ==
    LET n == IF Len(indexed) > 0 THEN Max(1, Min(nworkers, Len(indexed))) ELSE 1
        k == Len(indexed) \div n
    IN ChunkLoop(indexed, 0, n, k, 0, 0, <<>>)

chunk_evenly(indexed, nworkers) ==
    LET n == IF Len(indexed) > 0 THEN Max(1, Min(nworkers, Len(indexed))) ELSE 1
        k == Len(indexed) \div n
        m == Len(indexed) % n
    IN ChunkLoop(indexed, 0, n, k, m, 0, <<>>)

(* list(enumerate(items, start=1)) *)
Enumerate(items) == [i \in 1..Len(items) |-> <<i, items[i]>>]

(* ------------------------- services/tracking.py ------------------------- *)
TrackerEntry(idx, status, payload) == [index |-> idx, status |-> status, payload |-> payload]

(* the doc["items"] written for one shard *)
InitDoc(shard) == [j \in 1..Len(shard) |-> TrackerEntry(shard[j][1], "Pending", shard[j][2])]

(* an initialisation that rewrites the files that exist as well *)
init_tracking_files_Overwrite(files, docs, shs) ==
    [files |-> files \cup (1..Len(shs)),
     docs  |-> [w \in DOMAIN docs |->
                   IF w \in 1..Len(shs) THEN InitDoc(shs[w]) ELSE docs[w]]]

(* init_tracking_files: existing files are kept, missing ones are created *)
init_tracking_files(files, docs, shs) ==
    [files |-> files \cup (1..Len(shs)),
     docs  |-> [w \in DOMAIN docs |->
                   IF w \in 1..Len(shs) /\ w \notin files THEN InitDoc(shs[w]) ELSE docs[w]]]

(* position of the first row of the doc with this index, 0 when there is none *)
FirstWithIndex(doc, index) ==
    IF \E j \in 1..Len(doc) : doc[j].index = index
    THEN CHOOSE j \in 1..Len(doc) :
            /\ doc[j].index = index
            /\ \A h \in 1..(j - 1) : doc[h].index # index
    ELSE 0

mark_item_status(doc, index, status) ==
    LET j == FirstWithIndex(doc, index)
    IN IF j = 0 THEN doc ELSE [doc EXCEPT ![j].status = status]

IsPendingEntry(e) == Lower(e.status) = Lower("Pending")

(* iter_pending_items: (index, item) of the rows that are Pending *)
iter_pending_items(doc) ==
    LET F[j \in 0..Len(doc)] ==
            IF j = 0 THEN <<>>
            ELSE IF IsPendingEntry(doc[j])
                 THEN Append(F[j - 1], <<doc[j].index, doc[j].payload>>)
                 ELSE F[j - 1]
    IN F[Len(doc)]

(* pending_rows_for_report: synthesized rows for the rows that are Pending *)
pending_rows_for_report(doc) ==
    LET F[j \in 0..Len(doc)] ==
            IF j = 0 THEN <<>>
            ELSE IF IsPendingEntry(doc[j])
                 THEN Append(F[j - 1], Row(doc[j].index, doc[j].payload, "Pending"))
                 ELSE F[j - 1]
    IN F[Len(doc)]

(* ------------------------- worker_process: one item --------------------- *)
NONFATAL_RETRIES == 2

(* what one call of _do_one (page.create_rate under the watchdog) can do:  *)
(* return a dict with one of these statuses ...                            *)
ReturnStatuses == {"created", "skipped", "pending", "dialog_open", "validation_error", "unknown"}

(* ... or raise: TimeoutException; StaleElementReference / ClickIntercepted *)
(* / NotInteractable; a WebDriverException that _is_fatal_session_err      *)
(* accepts; any other WebDriverException; any other exception.             *)
Faults == {"TimeoutException", "StaleElement", "FatalWebDriver", "NonFatalWebDriver", "OtherException"}

(* a returned dict: its status and its optional "error" and "dialog_text"  *)
(* strings, an absent (or empty) field being the empty text                *)
Return(st, err, dlg) == [exc |-> "", status |-> st, error |-> err, dialog_text |-> dlg]

(* a call that raises *)
Raise(exc) == [exc |-> exc, status |-> "", error |-> "", dialog_text |-> ""]

(* res.get("error"): only the validation_error dict carries an error string *)
ResError(st) == IF st = "validation_error" THEN "validation" ELSE ""

(* the dict create_entry_and_submit builds for a status *)
PageReturn(st) == Return(st, ResError(st), IF st = "dialog_open" THEN "dialog" ELSE "")

(* the outcome of the per-item loop: the row appended to results and the   *)
(* status written by mark_item_status, or the exception leaving the worker *)
Effect(crash, status, mark, error, calls, rebuilds) ==
    [crash |-> crash, status |-> status, mark |-> mark, error |-> error,
     calls |-> calls, rebuilds |-> rebuilds]

(* _track_skipped, lines 132-151: the dialog_text kept with a Skipped row  *)
SkippedText(res) == IF res.dialog_text # "" THEN res.dialog_text ELSE res.error

(* lines 196-211: the classification after the first-path _do_one.  In the *)
(* else branch the row is appended and then `row.get("error") | ...` is    *)
(* evaluated when the error is a str, which raises TypeError.              *)
ClassifyFirst(res, calls) ==
    LET s == Lower(res.status)
    IN CASE s = "created" -> Effect(FALSE, res.status, "Done", "", calls, 0)
         [] s = "skipped" -> Effect(FALSE, res.status, "Skipped", SkippedText(res), calls, 0)
         [] s = "pending" -> Effect(FALSE, res.status, "Pending", "", calls, 0)
         [] OTHER -> IF res.error # ""
                     THEN Effect(TRUE, "", "", "TypeError", calls, 0)
                     ELSE Effect(FALSE, "error", "Error", res.dialog_text, calls, 0)

(* lines 221-230 (and the three copies): the classification after the retry *)
ClassifyRetry(res, calls) ==
    LET s == Lower(res.status)
    IN CASE s = "created" -> Effect(FALSE, res.status, "Done", "", calls, 1)
         [] s = "skipped" -> Effect(FALSE, res.status, "Skipped", SkippedText(res), calls, 1)
         [] s = "pending" -> Effect(FALSE, res.status, "Pending", "", calls, 1)
         [] OTHER -> Effect(FALSE, "error", "Error",
                            IF res.error # "" THEN res.error ELSE res.dialog_text, calls, 1)

(* the handlers without the retry: the row is always recover_failed *)
Recover_AlwaysError(att, k, reopen_ok) ==
    Effect(FALSE, "error", "Error", "recover_failed", IF reopen_ok THEN k ELSE k - 1, 1)

(* the try block of the handlers: rebuild the session, call _do_one once;  *)
(* any exception of either gives the recover_failed row                    *)
Recover(att, k, reopen_ok) ==
    IF ~reopen_ok THEN Effect(FALSE, "error", "Error", "recover_failed", k - 1, 1)
    ELSE IF att[k].exc = "" THEN ClassifyRetry(att[k], k)
    ELSE Effect(FALSE, "error", "Error", "recover_failed", k, 1)

(* a loop without soft retries: a transient fault goes to the rebuild *)
ItemLoop_NoSoftRetry(att, k, soft_attempt, reopen_ok) ==
    LET r == att[k].exc
    IN CASE r = "" -> ClassifyFirst(att[k], k)
         [] r \in {"TimeoutException", "FatalWebDriver", "StaleElement", "NonFatalWebDriver"} ->
                Recover(att, k + 1, reopen_ok)
         [] OTHER -> Effect(TRUE, "", "", "Exception", k, 0)

(* the `while True` loop of lines 190-352; att[k] is what the k-th call of *)
(* _do_one does, reopen_ok whether _recreate_driver_and_reopen succeeds    *)
RECURSIVE ItemLoop(_, _, _, _)
ItemLoop(att, k, soft_attempt, reopen_ok) ==
    LET r == att[k].exc
    IN CASE r = "" -> ClassifyFirst(att[k], k)
         [] r = "TimeoutException" -> Recover(att, k + 1, reopen_ok)
         [] r = "FatalWebDriver" -> Recover(att, k + 1, reopen_ok)
         [] r \in {"StaleElement", "NonFatalWebDriver"} ->
                IF soft_attempt < NONFATAL_RETRIES
                THEN ItemLoop(att, k + 1, soft_attempt + 1, reopen_ok)
                ELSE Recover(att, k + 1, reopen_ok)
         [] OTHER -> Effect(TRUE, "", "", "Exception", k, 0)

(* a handler whose try block has appended its row when the retry's        *)
(* exception reaches the except block, which appends another               *)
RowsAppended_TwiceOnRecover(att, k, soft_attempt, reopen_ok) ==
    IF \E j \in 1..k : att[j].exc # "" THEN 2 ELSE 1

(* the results.append calls made for the item: one in each branch of the   *)
(* classification (lines 196-211, 221-230), in _track_skipped (line 141)   *)
(* and in each recover_failed handler (lines 231-238); none when the       *)
(* exception leaves the loop                                               *)
RECURSIVE RowsAppended(_, _, _, _)
RowsAppended(att, k, soft_attempt, reopen_ok) ==
    LET r == att[k].exc
    IN CASE r = "" -> 1
         [] r \in {"TimeoutException", "FatalWebDriver"} -> 1
         [] r \in {"StaleElement", "NonFatalWebDriver"} ->
                IF soft_attempt < NONFATAL_RETRIES
                THEN RowsAppended(att, k + 1, soft_attempt + 1, reopen_ok)
                ELSE 1
         [] OTHER -> 0

(* what a call does, by name: the dict of the page, or the exception *)
Call(name) == IF name \in ReturnStatuses THEN PageReturn(name) ELSE Raise(name)

(* scripts of four _do_one calls that drive every branch of the loop *)
ScriptSet ==
    {[i \in 1..4 |-> Call(names[i])] : names \in
    { <<"created", "created", "created", "created">>,
      <<"skipped", "created", "created", "created">>,
      <<"pending", "created", "created", "created">>,
      <<"dialog_open", "created", "created", "created">>,
      <<"validation_error", "created", "created", "created">>,
      <<"OtherException", "created", "created", "created">>,
      <<"FatalWebDriver", "created", "created", "created">>,
      <<"TimeoutException", "pending", "created", "created">>,
      <<"TimeoutException", "validation_error", "created", "created">>,
      <<"StaleElement", "skipped", "created", "created">>,
      <<"StaleElement", "NonFatalWebDriver", "StaleElement", "unknown">>,
      <<"NonFatalWebDriver", "StaleElement", "FatalWebDriver", "OtherException">> }}

(* what one pass of the item loop can do to the worker *)
ItemEffects ==
    {[crash |-> e.crash, status |-> e.status, mark |-> e.mark] :
        e \in {ItemLoop(att, 1, 0, reopen_ok) : att \in ScriptSet, reopen_ok \in BOOLEAN}}

(* every dict a call can return (each status with its optional fields     *)
(* present or absent) and every exception it can raise                     *)
AllReturns ==
    {Return(st, err, dlg) : st \in ReturnStatuses \cup {"Created"},
                            err \in {"", "validation"}, dlg \in {"", "dialog"}}

AllCalls == AllReturns \cup {Raise(exc) : exc \in Faults}

(* the calls an item can need: one more after every exception the loop     *)
(* handles, soft retries being counted                                     *)
RECURSIVE LoopScripts(_)
LoopScripts(soft_attempt) ==
    LET hard == {Raise("TimeoutException"), Raise("FatalWebDriver")}
        soft == {Raise("StaleElement"), Raise("NonFatalWebDriver")}
    IN {<<c>> : c \in AllReturns \cup {Raise("OtherException")}}
       \cup {<<c, d>> : c \in hard, d \in AllCalls}
       \cup (IF soft_attempt < NONFATAL_RETRIES
             THEN {<<c>> \o rest : c \in soft, rest \in LoopScripts(soft_attempt + 1)}
             ELSE {<<c, d>> : c \in soft, d \in AllCalls})

(* the same, padded with calls the loop never makes *)
ItemScripts ==
    {[i \in 1..(NONFATAL_RETRIES + 2) |->
         IF i <= Len(calls) THEN calls[i] ELSE PageReturn("created")] : calls \in LoopScripts(0)}

NoEffect == Effect(FALSE, "", "", "", 0, 0)

(* ------------------- runner._run_multithread_once helpers --------------- *)
(* the row put in place of the result of a future that raised *)
CrashRow == Row(None, None, "error")

(* r.get("results", []) of a completed future *)
FutureRows(state, rows) == IF state = "crashed" THEN <<CrashRow>> ELSE rows

(* the orders in which as_completed can yield the futures of n workers *)
CompletionOrders(n) ==
    {o \in [1..n -> 1..n] : \A i, j \in 1..n : i # j => o[i] # o[j]}

(* lines 118-127: all_results.extend(...) for each future, in that order *)
RECURSIVE CollectFutures(_, _, _, _)
CollectFutures(order, states, rows, k) ==
    IF k = 0 THEN <<>>
    ELSE CollectFutures(order, states, rows, k - 1)
             \o FutureRows(states[order[k]], rows[order[k]])

(* lines 129-138: rows for tracker entries still Pending whose index is in *)
(* no returned row, scanning the files of this round's workers in order    *)
RECURSIVE AddPendingRows(_, _, _)
AddPendingRows(rows, prows, j) ==
    IF j > Len(prows) THEN rows
    ELSE IF prows[j].index # None /\ prows[j].index \notin {rows[h].index : h \in 1..Len(rows)}
         THEN AddPendingRows(Append(rows, prows[j]), prows, j + 1)
         ELSE AddPendingRows(rows, prows, j + 1)

RECURSIVE RescanTrackers(_, _, _, _, _)
RescanTrackers(rows, files, docs, w, n) ==
    IF w > n THEN rows
    ELSE RescanTrackers(
            AddPendingRows(rows, pending_rows_for_report(IF w \in files THEN docs[w] ELSE <<>>), 1),
            files, docs, w + 1, n)

(* all_results.sort(key=lambda x: x.get("index") or 0): a stable sort *)
RECURSIVE InsertSorted(_, _)
InsertSorted(sorted, row) ==
    IF sorted = <<>> THEN <<row>>
    ELSE IF sorted[Len(sorted)].index <= row.index
         THEN Append(sorted, row)
         ELSE Append(InsertSorted(SubSeq(sorted, 1, Len(sorted) - 1), row), sorted[Len(sorted)])

RECURSIVE SortByIndex(_)
SortByIndex(rows) ==
    IF rows = <<>> THEN <<>>
    ELSE InsertSorted(SortByIndex(SubSeq(rows, 1, Len(rows) - 1)), rows[Len(rows)])

(* _run_multithread_once, lines 118-146: what the round can return, one    *)
(* list of rows for each order in which the futures can complete           *)
RoundRows(states, rows, files, docs, n) ==
    {SortByIndex(RescanTrackers(CollectFutures(order, states, rows, n), files, docs, 1, n)) :
        order \in CompletionOrders(n)}

(* ------------------- runner.run_force_all_done helpers ------------------ *)
(* a store that leaves out the last row of the round *)
StoreRoundRows_DropLast(agg, pend, round_rows) ==
    LET lim == Min(Len(round_rows), Len(pend)) - 1
        keys == {pend[i][1] : i \in 1..lim}
    IN [p \in (DOMAIN agg) \cup keys |->
            IF p \in keys
            THEN LET i == CHOOSE h \in 1..lim :
                            pend[h][1] = p /\ \A g \in (h + 1)..lim : pend[g][1] # p
                 IN round_rows[i]
            ELSE agg[p]]

(* lines 174-178: round_rows[i] is stored under the original index of      *)
(* pending[i], for i below min(len(round_rows), len(pending))              *)
StoreRoundRows(agg, pend, round_rows) ==
    LET lim == Min(Len(round_rows), Len(pend))
        keys == {pend[i][1] : i \in 1..lim}
    IN [p \in (DOMAIN agg) \cup keys |->
            IF p \in keys
            THEN LET i == CHOOSE h \in 1..lim :
                            pend[h][1] = p /\ \A g \in (h + 1)..lim : pend[g][1] # p
                 IN round_rows[i]
            ELSE agg[p]]

(* a requeue of the error rows instead of the pending ones *)
NextPending_ErrorOnly(agg, pend, lim) ==
    LET F[i \in 0..lim] ==
            IF i = 0 THEN <<>>
            ELSE IF pend[i][1] \in DOMAIN agg /\ Lower(agg[pend[i][1]].status) = "error"
                 THEN Append(F[i - 1], pend[i])
                 ELSE F[i - 1]
    IN F[lim]

(* lines 180-186: the pairs whose stored row is pending are requeued *)
NextPending(agg, pend, lim) ==
    LET F[i \in 0..lim] ==
            IF i = 0 THEN <<>>
            ELSE IF pend[i][1] \in DOMAIN agg /\ Lower(agg[pend[i][1]].status) = "pending"
                 THEN Append(F[i - 1], pend[i])
                 ELSE F[i - 1]
    IN F[lim]

(* lines 194-201: aggregate_results.setdefault(idx, no_result row) *)
SetDefaults(agg, n) ==
    [idx \in (DOMAIN agg) \cup (1..n) |->
        IF idx \in DOMAIN agg THEN agg[idx] ELSE Row(idx, idx, "error")]

(* [aggregate_results[i] for i in sorted(aggregate_results.keys())] *)
RECURSIVE FinalRows(_, _)
FinalRows(agg, keys) ==
    IF keys = {} THEN <<>>
    ELSE LET k == CHOOSE x \in keys : \A y \in keys : x <= y
         IN <<agg[k]>> \o FinalRows(agg, keys \ {k})

CountStatus(rows, st) == Cardinality({i \in 1..Len(rows) : Lower(rows[i].status) = st})

(* a count of the error rows only, leaving out the rows still pending *)
CountFailed_ErrorOnly(rows) ==
    Cardinality({i \in 1..Len(rows) : Lower(rows[i].status) = "error"})

(* failed_rows: every row that is neither created nor skipped *)
CountFailed(rows) ==
    Cardinality({i \in 1..Len(rows) : Lower(rows[i].status) \notin {"created", "skipped"}})

(* lines 194-223: the returned dict *)
BuildResult(agg, n, nworkers, rnd) ==
    LET full == SetDefaults(agg, n)
        final_rows == FinalRows(full, DOMAIN full)
    IN [ok |-> CountFailed(final_rows) = 0,
        workers |-> nworkers,
        total |-> n,
        created |-> CountStatus(final_rows, "created"),
        failed |-> CountFailed(final_rows),
        skipped |-> CountStatus(final_rows, "skipped"),
        results |-> final_rows,
        rounds_used |-> rnd]

NoResult ==
    [ok |-> FALSE, workers |-> 0, total |-> 0, created |-> 0, failed |-> 0,
     skipped |-> 0, results |-> <<>>, rounds_used |-> 0]

(* lines 95-101: the queue a worker builds from its tracking file or shard *)
BuildPendingList(files, doc, w, shard) ==
    IF w \in files
    THEN LET pl == iter_pending_items(doc)
         IN IF pl = <<>> THEN shard ELSE pl
    ELSE shard

(* the worker ids of the widest pool a specification below starts *)
WorkerIds == 1..(MaxWorkers + 1)

(* ------------------------- services/commit.py --------------------------- *)
ThreadIds == 1..NumThreads

(* lock objects; an identity is reused once nothing refers to the object *)
LockIds == 1..NumThreads

(* a str is a sequence of characters *)
Upper(c) ==
    CASE c = "u" -> "U"
      [] c = "e" -> "E"
      [] c = "j" -> "J"
      [] OTHER -> c

RECURSIVE LStrip(_)
LStrip(str) == IF str # <<>> /\ Head(str) = " " THEN LStrip(Tail(str)) ELSE str

RECURSIVE RStrip(_)
RStrip(str) ==
    IF str # <<>> /\ str[Len(str)] = " " THEN RStrip(SubSeq(str, 1, Len(str) - 1)) ELSE str

(* str(p).strip().upper() *)
StripUpper(str) == LET t == RStrip(LStrip(str)) IN [i \in 1..Len(t) |-> Upper(t[i])]

(* "|".join(parts) *)
RECURSIVE Join(_)
Join(parts) ==
    IF parts = <<>> THEN <<>>
    ELSE IF Len(parts) = 1 THEN parts[1]
    ELSE parts[1] \o <<"|">> \o Join(Tail(parts))

(* a key is None or a tuple of parts, each part None or a str *)
NoneKey == [none |-> TRUE, parts |-> <<>>]

NonePart == [none |-> TRUE, str |-> <<>>]

Str(chars) == [none |-> FALSE, str |-> chars]

TupleKey(parts) == [none |-> FALSE, parts |-> parts]

(* the value of normalized_key: None, or a token (a str, possibly empty) *)
NoToken == [none |-> TRUE, str |-> <<>>]

Token(chars) == [none |-> FALSE, str |-> chars]

(* _normalize_key, lines 17-37, for None and for list/tuple keys *)
_normalize_key(key) ==
    IF key.none THEN NoToken
    ELSE LET F[i \in 0..Len(key.parts)] ==
                 IF i = 0 THEN <<>>
                 ELSE IF key.parts[i].none THEN F[i - 1]
                      ELSE Append(F[i - 1], StripUpper(key.parts[i].str))
             normalized == F[Len(key.parts)]
         IN IF normalized # <<>> THEN Token(Join(normalized)) ELSE NoToken

(* `if normalized_key:` - None and the empty str are both false *)
Truthy(nk) == ~nk.none /\ nk.str # <<>>

(* the keys the callers use *)
RawKeys ==
    { NoneKey,
      TupleKey(<<Str(<<"u">>), Str(<<"e">>)>>),
      TupleKey(<<Str(<<"U">>), Str(<<" ", "e">>)>>),
      TupleKey(<<Str(<<"j">>), NonePart>>),
      TupleKey(<<NonePart>>),
      TupleKey(<<Str(<<" ">>)>>) }

(* threading.Lock(): an object no caller and no registry entry refers to *)
FreeLocks(reg, held) ==
    {l \in LockIds : /\ \A k \in DOMAIN reg : reg[k].lock # l
                     /\ \A t \in ThreadIds : held[t] # l}

(* a lookup that hands out the lock of whatever entry exists *)
ReservedLock_AnyEntry(reg, held, key) ==
    IF DOMAIN reg # {} THEN reg[CHOOSE k \in DOMAIN reg : TRUE].lock
    ELSE CHOOSE l \in FreeLocks(reg, held) : \A x \in FreeLocks(reg, held) : l <= x

(* _reserve_key_lock, lines 40-48: the lock returned for a key *)
ReservedLock(reg, held, key) ==
    IF key \in DOMAIN reg THEN reg[key].lock
    ELSE CHOOSE l \in FreeLocks(reg, held) : \A x \in FreeLocks(reg, held) : l <= x

(* _reserve_key_lock, lines 40-48: the registry after the reservation *)
_reserve_key_lock(reg, held, key) ==
    IF key \in DOMAIN reg
    THEN [reg EXCEPT ![key].refcount = @ + 1]
    ELSE [k \in (DOMAIN reg) \cup {key} |->
             IF k = key THEN [lock |-> ReservedLock(reg, held, key), refcount |-> 1]
             ELSE reg[k]]

(* a release that drops the entry whatever its reference count *)
_release_key_lock_AlwaysPop(reg, key, lock) ==
    IF key \notin DOMAIN reg THEN reg
    ELSE [k \in (DOMAIN reg) \ {key} |-> reg[k]]

(* _release_key_lock, lines 51-60 *)
_release_key_lock(reg, key, lock) ==
    IF key \notin DOMAIN reg THEN reg
    ELSE IF reg[key].lock = lock /\ reg[key].refcount <= 1
         THEN [k \in (DOMAIN reg) \ {key} |-> reg[k]]
         ELSE [reg EXCEPT ![key].refcount = Max(1, @ - 1)]

(* an acquire that never blocks *)
SemCanAcquire_NeverBlocks(permits) == TRUE

(* _GLOBAL_SEM.acquire() blocks while no permit is free *)
SemCanAcquire(permits) == permits > 0

KeyLockRelease_Keep(holder, lock) == holder

(* commit.py line 87: key_lock.release() *)
KeyLockRelease(holder, lock) == [holder EXCEPT ![lock] = None]

FinallySem_SkipOnRaise(permits, raised) == IF raised THEN permits ELSE permits + 1

(* commit.py lines 81-84: finally: _GLOBAL_SEM.release(), whether the body *)
(* returned or raised                                                      *)
FinallySem(permits, raised) == permits + 1

(* ----------------------------- Init ------------------------------------- *)
(* a file that does not exist; a file holding the first len chunks of the  *)
(* JSON text of doc (one chunk per entry of doc["items"])                  *)
NoFile == [exists |-> FALSE, doc |-> <<>>, len |-> 0]

(* a tracker directory that does not exist *)
NoDir == [exists |-> FALSE, files |-> <<>>]

DirOf(files) == [exists |-> TRUE, files |-> files]

(* the timers a worker can arm in a pass: one for each call of _do_one,   *)
(* the first call of an item and the call after its rebuild                *)
TimerIds == 1..(2 * MaxSessItems)

(* reporting.py line 123: the totals of a day before any line is added *)
NoTotals ==
    [batches |-> 0, received |-> 0, created |-> 0, failed |-> 0, skipped |-> 0,
     ok_batches |-> 0, nok_batches |-> 0]

FileOf(doc, len) == [exists |-> TRUE, doc |-> doc, len |-> len]

(* tracking._load_tracking: json.loads of the text, or the empty default   *)
(* document when the file is missing or its text does not parse            *)
_load_tracking(f) ==
    IF f.exists /\ f.len = Len(f.doc)
    THEN [parsed |-> TRUE, items |-> f.doc]
    ELSE [parsed |-> FALSE, items |-> <<>>]

SaveIdle ==
    /\ path_file = NoFile
    /\ tmp_file = NoFile
    /\ save_pc = "idle"
    /\ save_doc = <<>>
    /\ loaded = _load_tracking(NoFile)

LoginIdle ==
    /\ login_cap = 0
    /\ login_sem = 0
    /\ lpc = [w \in WorkerIds |-> "idle"]
    /\ lleft = [w \in WorkerIds |-> 0]
    /\ lre = [w \in WorkerIds |-> FALSE]

ArchIdle ==
    /\ arch_live = NoDir
    /\ arch_finished = NoDir
    /\ arch_report = ""
    /\ arch_n = 0

DailyIdle ==
    /\ rollup = <<>>
    /\ final_totals = NoTotals
    /\ live_dirs = <<>>
    /\ daily_last = <<>>

SessIdle ==
    /\ spc = "idle"
    /\ sdrv = None
    /\ spage = None
    /\ sopen = {}
    /\ sleft = 0
    /\ sretry = FALSE
    /\ shung = FALSE
    /\ srows = 0
    /\ stimers = [t \in TimerIds |-> "idle"]
    /\ stop_event = FALSE
    /\ sraised = FALSE
    /\ snext = 1

AuxIdle ==
    /\ SaveIdle
    /\ LoginIdle
    /\ ArchIdle
    /\ DailyIdle
    /\ SessIdle

AttemptIdle ==
    /\ apc = [t \in ThreadIds |-> "idle"]
    /\ ares = [t \in ThreadIds |-> ""]

ItemIdle ==
    /\ item_pc = "idle"
    /\ item_att = <<>>
    /\ item_reopen_ok = FALSE
    /\ item_effect = NoEffect
    /\ item_rows = 0

GateIdle ==
    /\ commit_concurrency = 1
    /\ sem = 1
    /\ key_locks = <<>>
    /\ lock_holder = [l \in LockIds |-> None]
    /\ gpc = [t \in ThreadIds |-> "idle"]
    /\ gkey = [t \in ThreadIds |-> NoToken]
    /\ glock = [t \in ThreadIds |-> None]
    /\ gexc = [t \in ThreadIds |-> FALSE]

Init ==
    /\ total \in 0..MaxItems
    /\ workers \in 1..MaxWorkers
    /\ rpc = "loop"
    /\ round_no = 0
    /\ pending = [i \in 1..total |-> <<i, i>>]
    /\ aggregate_results = <<>>
    /\ result = NoResult
    /\ shards = <<>>
    /\ track_files = {}
    /\ tracker = [w \in WorkerIds |-> <<>>]
    /\ wpc = [w \in WorkerIds |-> "idle"]
    /\ pending_list = [w \in WorkerIds |-> <<>>]
    /\ wpos = [w \in WorkerIds |-> 0]
    /\ results = [w \in WorkerIds |-> <<>>]
    /\ attempted = [w \in WorkerIds |-> {}]
    /\ GateIdle
    /\ AttemptIdle
    /\ ItemIdle
    /\ AuxIdle

(* ------------------- run_force_all_done: one round ---------------------- *)
(* lines 163-171 and 99-116: the loop goes on, the pending items are       *)
(* re-enumerated, sharded, the tracking files initialised, workers started *)
StartRound ==
    /\ rpc = "loop"
    /\ pending # <<>>
    /\ round_no < MaxRounds
    /\ LET round_items == [i \in 1..Len(pending) |-> pending[i][2]]
           shs == chunk_evenly(Enumerate(round_items), workers)
           tf == init_tracking_files(track_files, tracker, shs)
       IN /\ shards' = shs
          /\ track_files' = tf.files
          /\ tracker' = tf.docs
          /\ wpc' = [w \in WorkerIds |-> IF w <= Len(shs) THEN "start" ELSE "idle"]
    /\ round_no' = round_no + 1
    /\ rpc' = "pool"
    /\ UNCHANGED <<total, workers, pending, aggregate_results, result,
                   pending_list, wpos, results, attempted>>
    /\ UNCHANGED <<gate_vars, attempt_vars, item_vars, aux_vars>>

(* worker.py lines 95-101 and 153-160: build the queue, open the session;  *)
(* when the session cannot be opened the worker returns no rows            *)
WorkerStart(w) ==
    /\ rpc = "pool"
    /\ wpc[w] = "start"
    /\ pending_list' = [pending_list EXCEPT
                           ![w] = BuildPendingList(track_files, tracker[w], w, shards[w])]
    /\ \E open_ok \in BOOLEAN :
          /\ wpc' = [wpc EXCEPT ![w] = IF open_ok THEN "run" ELSE "done"]
          /\ wpos' = [wpos EXCEPT ![w] = IF open_ok THEN 1 ELSE 0]
    /\ UNCHANGED <<total, workers, rpc, round_no, pending, aggregate_results, result,
                   shards, track_files, tracker, results, attempted>>
    /\ UNCHANGED <<gate_vars, attempt_vars, item_vars, aux_vars>>

(* worker.py lines 162-352: the next item of the queue is attempted, its   *)
(* row appended and its status marked, or an exception leaves the worker   *)
WorkerItem(w) ==
    /\ rpc = "pool"
    /\ wpc[w] = "run"
    /\ wpos[w] <= Len(pending_list[w])
    /\ \E e \in ItemEffects :
          LET idx == pending_list[w][wpos[w]][1]
              it == pending_list[w][wpos[w]][2]
              rows == Append(results[w], Row(idx, it, e.status))
              last == wpos[w] = Len(pending_list[w])
          IN /\ attempted' = [attempted EXCEPT ![w] = @ \cup {it}]
             /\ IF e.crash
                THEN /\ wpc' = [wpc EXCEPT ![w] = "crashed"]
                     /\ UNCHANGED <<results, tracker, wpos>>
                ELSE /\ results' = [results EXCEPT ![w] = rows]
                     /\ tracker' = [tracker EXCEPT ![w] =
                                        IF w \in track_files
                                        THEN mark_item_status(@, idx, e.mark) ELSE @]
                     /\ wpos' = [wpos EXCEPT ![w] = @ + 1]
                     /\ wpc' = [wpc EXCEPT ![w] = IF last THEN "done" ELSE "run"]
    /\ UNCHANGED <<total, workers, rpc, round_no, pending, aggregate_results, result,
                   shards, track_files, pending_list>>
    /\ UNCHANGED <<gate_vars, attempt_vars, item_vars, aux_vars>>

(* the pool is shut down: the locals of _run_multithread_once and of the   *)
(* worker threads no longer exist                                          *)
WorkersGone ==
    /\ shards' = <<>>
    /\ wpc' = [w \in WorkerIds |-> "idle"]
    /\ pending_list' = [w \in WorkerIds |-> <<>>]
    /\ wpos' = [w \in WorkerIds |-> 0]
    /\ results' = [w \in WorkerIds |-> <<>>]
    /\ attempted' = [w \in WorkerIds |-> {}]

(* runner.py lines 118-146 and 172-192: the futures are gathered in the    *)
(* order they completed, then the tracker re-scan, the sort, the           *)
(* positional store of the round's rows and the requeue                    *)
EndRound ==
    /\ rpc = "pool"
    /\ \A w \in 1..Len(shards) : wpc[w] \in {"done", "crashed"}
    /\ \E round_rows \in RoundRows(wpc, results, track_files, tracker, Len(shards)) :
          LET lim == Min(Len(round_rows), Len(pending))
              agg == StoreRoundRows(aggregate_results, pending, round_rows)
          IN /\ aggregate_results' = agg
             /\ pending' = NextPending(agg, pending, lim)
    /\ rpc' = "loop"
    /\ WorkersGone
    /\ UNCHANGED <<total, workers, round_no, result, track_files, tracker>>
    /\ UNCHANGED <<gate_vars, attempt_vars, item_vars, aux_vars>>

(* runner.py lines 194-229: defaults, counts, the returned dict, and the   *)
(* removal of the tracking directory in the finally block                  *)
Finish ==
    /\ result' = BuildResult(aggregate_results, total, workers, round_no)
    /\ aggregate_results' = SetDefaults(aggregate_results, total)
    /\ track_files' = {}
    /\ tracker' = [w \in WorkerIds |-> <<>>]
    /\ rpc' = "done"
    /\ UNCHANGED <<total, workers, round_no, pending, shards,
                   wpc, pending_list, wpos, results, attempted>>
    /\ UNCHANGED <<gate_vars, attempt_vars, item_vars, aux_vars>>

(* lines 163-165: nothing pending, or the round budget is used up *)
LoopExit ==
    /\ rpc = "loop"
    /\ (pending = <<>> \/ round_no >= MaxRounds)
    /\ Finish

(* lines 166-167: the wall-clock cap is exceeded at the head of the loop *)
TimeCapExit ==
    /\ rpc = "loop"
    /\ pending # <<>>
    /\ round_no >= 1
    /\ round_no < MaxRounds
    /\ Finish

BatchNext ==
    \/ StartRound
    \/ \E w \in WorkerIds : WorkerStart(w)
    \/ \E w \in WorkerIds : WorkerItem(w)
    \/ EndRound
    \/ LoopExit
    \/ TimeCapExit

Spec == Init /\ [][BatchNext]_vars

(* ------------------------- commit_gate callers -------------------------- *)
BatchIdle ==
    /\ total = 0
    /\ workers = 1
    /\ rpc = "done"
    /\ round_no = 0
    /\ pending = <<>>
    /\ aggregate_results = <<>>
    /\ result = NoResult
    /\ shards = <<>>
    /\ track_files = {}
    /\ tracker = [w \in WorkerIds |-> <<>>]
    /\ wpc = [w \in WorkerIds |-> "idle"]
    /\ pending_list = [w \in WorkerIds |-> <<>>]
    /\ wpos = [w \in WorkerIds |-> 0]
    /\ results = [w \in WorkerIds |-> <<>>]
    /\ attempted = [w \in WorkerIds |-> {}]

GateInit ==
    /\ BatchIdle
    /\ AttemptIdle
    /\ ItemIdle
    /\ AuxIdle
    /\ commit_concurrency \in 1..MaxCommitConcurrency
    /\ sem = commit_concurrency
    /\ key_locks = <<>>
    /\ lock_holder = [l \in LockIds |-> None]
    /\ gpc = [t \in ThreadIds |-> "idle"]
    /\ gkey = [t \in ThreadIds |-> NoToken]
    /\ glock = [t \in ThreadIds |-> None]
    /\ gexc = [t \in ThreadIds |-> FALSE]

(* line 72: a thread calls commit_gate(key) *)
GateCallKey(t, key) ==
    /\ gpc[t] = "idle"
    /\ LET normalized_key == _normalize_key(key)
       IN /\ gkey' = [gkey EXCEPT ![t] = normalized_key]
          /\ gpc' = [gpc EXCEPT ![t] = IF Truthy(normalized_key) THEN "reserve" ELSE "sem"]
    /\ gexc' = [gexc EXCEPT ![t] = FALSE]
    /\ UNCHANGED <<commit_concurrency, sem, key_locks, lock_holder, glock>>
    /\ UNCHANGED <<batch_vars, attempt_vars, item_vars, aux_vars>>

GateCall(t) == \E key \in RawKeys : GateCallKey(t, key)

(* line 77: key_lock = _reserve_key_lock(normalized_key), under the guard *)
GateReserve(t) ==
    /\ gpc[t] = "reserve"
    /\ (gkey[t].str \in DOMAIN key_locks \/ FreeLocks(key_locks, glock) # {})
    /\ glock' = [glock EXCEPT ![t] = ReservedLock(key_locks, glock, gkey[t].str)]
    /\ key_locks' = _reserve_key_lock(key_locks, glock, gkey[t].str)
    /\ gpc' = [gpc EXCEPT ![t] = "key_acquire"]
    /\ UNCHANGED <<commit_concurrency, sem, lock_holder, gkey, gexc>>
    /\ UNCHANGED <<batch_vars, attempt_vars, item_vars, aux_vars>>

(* line 78: key_lock.acquire() *)
GateKeyAcquire(t) ==
    /\ gpc[t] = "key_acquire"
    /\ lock_holder[glock[t]] = None
    /\ lock_holder' = [lock_holder EXCEPT ![glock[t]] = t]
    /\ gpc' = [gpc EXCEPT ![t] = "sem"]
    /\ UNCHANGED <<commit_concurrency, sem, key_locks, gkey, glock, gexc>>
    /\ UNCHANGED <<batch_vars, attempt_vars, item_vars, aux_vars>>

(* line 80: _GLOBAL_SEM.acquire(), then the guarded body runs *)
GateSemAcquire(t) ==
    /\ gpc[t] = "sem"
    /\ SemCanAcquire(sem)
    /\ sem' = sem - 1
    /\ gpc' = [gpc EXCEPT ![t] = "body"]
    /\ UNCHANGED <<commit_concurrency, key_locks, lock_holder, gkey, glock, gexc>>
    /\ UNCHANGED <<batch_vars, attempt_vars, item_vars, aux_vars>>

(* lines 81-84: the body returns or raises; the finally releases the       *)
(* permit, and an exception stays in flight through both finally blocks    *)
GateBodyExit(t) ==
    /\ gpc[t] = "body"
    /\ \E raised \in BOOLEAN :
          /\ sem' = FinallySem(sem, raised)
          /\ gexc' = [gexc EXCEPT ![t] = raised]
    /\ IF Truthy(gkey[t]) /\ glock[t] # None
       THEN /\ gpc' = [gpc EXCEPT ![t] = "key_release"]
            /\ UNCHANGED gkey
       ELSE /\ gpc' = [gpc EXCEPT ![t] = "idle"]
            /\ gkey' = [gkey EXCEPT ![t] = NoToken]
    /\ UNCHANGED <<commit_concurrency, key_locks, lock_holder, glock>>
    /\ UNCHANGED <<batch_vars, attempt_vars, item_vars, aux_vars>>

(* line 87: key_lock.release() *)
GateKeyRelease(t) ==
    /\ gpc[t] = "key_release"
    /\ lock_holder' = KeyLockRelease(lock_holder, glock[t])
    /\ gpc' = [gpc EXCEPT ![t] = "unreserve"]
    /\ UNCHANGED <<commit_concurrency, sem, key_locks, gkey, glock, gexc>>
    /\ UNCHANGED <<batch_vars, attempt_vars, item_vars, aux_vars>>

(* line 88: _release_key_lock(normalized_key, key_lock), under the guard *)
GateUnreserve(t) ==
    /\ gpc[t] = "unreserve"
    /\ key_locks' = _release_key_lock(key_locks, gkey[t].str, glock[t])
    /\ glock' = [glock EXCEPT ![t] = None]
    /\ gkey' = [gkey EXCEPT ![t] = NoToken]
    /\ gpc' = [gpc EXCEPT ![t] = "idle"]
    /\ UNCHANGED <<commit_concurrency, sem, lock_holder, gexc>>
    /\ UNCHANGED <<batch_vars, attempt_vars, item_vars, aux_vars>>

GateNext ==
    \/ \E t \in ThreadIds : GateCall(t)
    \/ \E t \in ThreadIds : GateReserve(t)
    \/ \E t \in ThreadIds : GateKeyAcquire(t)
    \/ \E t \in ThreadIds : GateSemAcquire(t)
    \/ \E t \in ThreadIds : GateBodyExit(t)
    \/ \E t \in ThreadIds : GateKeyRelease(t)
    \/ \E t \in ThreadIds : GateUnreserve(t)

SpecGate == GateInit /\ [][GateNext]_vars

(* ---------------- commit_gate callers under fair scheduling ------------- *)
(* the callers use no key or one key, so that they contend for both the    *)
(* key lock and the permits                                                *)
LiveKeys == { NoneKey, TupleKey(<<Str(<<"u">>), Str(<<"e">>)>>) }

GateLiveCall(t) == \E key \in LiveKeys : GateCallKey(t, key)

GateLiveNext ==
    \/ \E t \in ThreadIds : GateLiveCall(t)
    \/ \E t \in ThreadIds : GateReserve(t)
    \/ \E t \in ThreadIds : GateKeyAcquire(t)
    \/ \E t \in ThreadIds : GateSemAcquire(t)
    \/ \E t \in ThreadIds : GateBodyExit(t)
    \/ \E t \in ThreadIds : GateKeyRelease(t)
    \/ \E t \in ThreadIds : GateUnreserve(t)

(* the steps of a caller that wait for nothing, and its two acquire()     *)
GateRun(t) ==
    \/ GateReserve(t)
    \/ GateBodyExit(t)
    \/ GateKeyRelease(t)
    \/ GateUnreserve(t)

GateAcquire(t) == GateKeyAcquire(t) \/ GateSemAcquire(t)

(* a thread that can run does run, so that a body that was entered exits;  *)
(* a thread blocked in acquire() gets the lock or the permit when it is    *)
(* free again and again. Nothing obliges a thread to call commit_gate.     *)
GateFairness ==
    \A t \in ThreadIds : WF_vars(GateRun(t)) /\ SF_vars(GateAcquire(t))

(* the tightest gate and the widest one *)
GateLiveInit ==
    /\ GateInit
    /\ commit_concurrency \in {1, MaxCommitConcurrency}

SpecGateFair == GateLiveInit /\ [][GateLiveNext]_vars /\ GateFairness

(* ------------- run_force_all_done with one worker per item -------------- *)
(* NUM_WORKERS is at least the batch size, so that chunk_evenly gives every *)
(* item of the first round a shard (and a tracking file) of its own        *)
InitWide ==
    /\ total = MaxItems
    /\ workers = MaxWorkers + 1
    /\ rpc = "loop"
    /\ round_no = 0
    /\ pending = [i \in 1..total |-> <<i, i>>]
    /\ aggregate_results = <<>>
    /\ result = NoResult
    /\ shards = <<>>
    /\ track_files = {}
    /\ tracker = [w \in WorkerIds |-> <<>>]
    /\ wpc = [w \in WorkerIds |-> "idle"]
    /\ pending_list = [w \in WorkerIds |-> <<>>]
    /\ wpos = [w \in WorkerIds |-> 0]
    /\ results = [w \in WorkerIds |-> <<>>]
    /\ attempted = [w \in WorkerIds |-> {}]
    /\ GateIdle
    /\ AttemptIdle
    /\ ItemIdle
    /\ AuxIdle

SpecWide == InitWide /\ [][BatchNext]_vars

(* ------- run_force_all_done when every attempt returns pending ---------- *)
(* the runs in which every worker opens its session and every call of      *)
(* page.create_rate returns {"status": "pending"}                          *)
EveryAttemptPending ==
    /\ \A w \in WorkerIds : wpc[w] = "start" => wpc'[w] \in {"start", "run"}
    /\ \A w \in WorkerIds : wpc'[w] # "crashed"
    /\ \A w \in WorkerIds :
          Len(results'[w]) > Len(results[w])
              => results'[w][Len(results'[w])].status = "pending"

PendingNext ==
    \/ StartRound /\ EveryAttemptPending
    \/ \E w \in WorkerIds : WorkerStart(w) /\ EveryAttemptPending
    \/ \E w \in WorkerIds : WorkerItem(w) /\ EveryAttemptPending
    \/ EndRound /\ EveryAttemptPending
    \/ LoopExit /\ EveryAttemptPending
    \/ TimeCapExit /\ EveryAttemptPending

SpecPending == Init /\ [][PendingNext]_vars

(* ------ run_force_all_done when every attempt returns created ----------- *)
(* every session opens, no worker raises, and every row a worker appends   *)
(* is the created row of a first try, marked Done in its tracking file     *)
EveryAttemptCreated ==
    /\ \A w \in WorkerIds : wpc[w] = "start" => wpc'[w] \in {"start", "run"}
    /\ \A w \in WorkerIds : wpc'[w] # "crashed"
    /\ \A w \in WorkerIds :
          Len(results'[w]) > Len(results[w])
              => /\ Lower(results'[w][Len(results'[w])].status) = "created"
                 /\ \A j \in 1..Len(tracker'[w]) :
                       tracker'[w][j].index = results'[w][Len(results'[w])].index
                           => tracker'[w][j].status = "Done"

(* a batch of at least one item, on any number of workers *)
CreatedInit ==
    /\ total \in 1..(MaxItems + 1)
    /\ workers \in 1..(MaxWorkers + 1)
    /\ rpc = "loop"
    /\ round_no = 0
    /\ pending = [i \in 1..total |-> <<i, i>>]
    /\ aggregate_results = <<>>
    /\ result = NoResult
    /\ shards = <<>>
    /\ track_files = {}
    /\ tracker = [w \in WorkerIds |-> <<>>]
    /\ wpc = [w \in WorkerIds |-> "idle"]
    /\ pending_list = [w \in WorkerIds |-> <<>>]
    /\ wpos = [w \in WorkerIds |-> 0]
    /\ results = [w \in WorkerIds |-> <<>>]
    /\ attempted = [w \in WorkerIds |-> {}]
    /\ GateIdle
    /\ AttemptIdle
    /\ ItemIdle
    /\ AuxIdle

(* the time cap is read only at the head of a round with items pending,    *)
(* which does not happen after the first round here                        *)
CreatedNext ==
    \/ StartRound /\ EveryAttemptCreated
    \/ \E w \in WorkerIds : WorkerStart(w) /\ EveryAttemptCreated
    \/ \E w \in WorkerIds : WorkerItem(w) /\ EveryAttemptCreated
    \/ EndRound /\ EveryAttemptCreated
    \/ LoopExit /\ EveryAttemptCreated

SpecCreated == CreatedInit /\ [][CreatedNext]_vars

(* ---------- run_force_all_done over tracking files left behind ---------- *)
(* the statuses mark_item_status writes (tracking.py: PENDING, DONE,       *)
(* SKIPPED, ERROR)                                                         *)
TrackerStatuses == {"Pending", "Done", "Skipped", "Error"}

(* the files of a first round that was killed before the finally of        *)
(* run_force_all_done removed them: the shards of the batch, each entry    *)
(* with the status its worker last wrote                                   *)
LeftDocs(shs, sts) ==
    [w \in WorkerIds |->
        IF w <= Len(shs)
        THEN [j \in 1..Len(shs[w]) |->
                 TrackerEntry(shs[w][j][1], sts[shs[w][j][2]], shs[w][j][2])]
        ELSE <<>>]

(* a new run of the same batch (same batch_id, items and NUM_WORKERS)      *)
(* starts with those files in its tracking directory                       *)
ResumeInit ==
    /\ total \in 1..MaxItems
    /\ workers \in 1..MaxWorkers
    /\ rpc = "loop"
    /\ round_no = 0
    /\ pending = [i \in 1..total |-> <<i, i>>]
    /\ aggregate_results = <<>>
    /\ result = NoResult
    /\ shards = <<>>
    /\ \E sts \in [1..total -> TrackerStatuses] :
          LET shs == chunk_evenly(Enumerate([i \in 1..total |-> i]), workers)
          IN /\ track_files = 1..Len(shs)
             /\ tracker = LeftDocs(shs, sts)
    /\ wpc = [w \in WorkerIds |-> "idle"]
    /\ pending_list = [w \in WorkerIds |-> <<>>]
    /\ wpos = [w \in WorkerIds |-> 0]
    /\ results = [w \in WorkerIds |-> <<>>]
    /\ attempted = [w \in WorkerIds |-> {}]
    /\ GateIdle
    /\ AttemptIdle
    /\ ItemIdle
    /\ AuxIdle

SpecResume == ResumeInit /\ [][BatchNext]_vars

(* --------------------- BatchRunner.stream_events ------------------------ *)
(* lines 287-291: aggregate[idx] = row for every row whose index is set,   *)
(* in the order the rows arrive                                            *)
RECURSIVE StreamStore(_, _, _)
StreamStore(agg, rows, k) ==
    IF k = 0 THEN agg
    ELSE LET prev == StreamStore(agg, rows, k - 1)
             row == rows[k]
         IN IF row.index = None THEN prev
            ELSE [p \in (DOMAIN prev) \cup {row.index} |->
                     IF p = row.index THEN row ELSE prev[p]]

(* lines 304-322: the result dict, built from sorted(aggregate.values()) *)
StreamResult(agg, n, nworkers, rnd) ==
    LET results_sorted == FinalRows(agg, DOMAIN agg)
    IN [ok |-> CountFailed(results_sorted) = 0,
        workers |-> nworkers,
        total |-> n,
        created |-> CountStatus(results_sorted, "created"),
        failed |-> CountFailed(results_sorted),
        skipped |-> CountStatus(results_sorted, "skipped"),
        results |-> results_sorted,
        rounds_used |-> rnd]

(* lines 254-276: the head of the loop, the shards of pending_pairs (the   *)
(* pairs keep their indices), the tracking files, the pool                 *)
StreamStartRound ==
    /\ rpc = "loop"
    /\ pending # <<>>
    /\ round_no < MaxRounds
    /\ LET shs == chunk_evenly(pending, workers)
           tf == init_tracking_files(track_files, tracker, shs)
       IN /\ shards' = shs
          /\ track_files' = tf.files
          /\ tracker' = tf.docs
          /\ wpc' = [w \in WorkerIds |-> IF w <= Len(shs) THEN "start" ELSE "idle"]
    /\ round_no' = round_no + 1
    /\ rpc' = "pool"
    /\ UNCHANGED <<total, workers, pending, aggregate_results, result,
                   pending_list, wpos, results, attempted>>
    /\ UNCHANGED <<gate_vars, attempt_vars, item_vars, aux_vars>>

(* lines 278-298: the futures are taken as they complete and their rows    *)
(* stored; pending_pairs is not assigned anywhere in the loop              *)
StreamEndRound ==
    /\ rpc = "pool"
    /\ \A w \in 1..Len(shards) : wpc[w] \in {"done", "crashed"}
    /\ \E agg \in {LET rows == CollectFutures(order, wpc, results, Len(shards))
                   IN StreamStore(aggregate_results, rows, Len(rows)) :
                       order \in CompletionOrders(Len(shards))} :
          aggregate_results' = agg
    /\ rpc' = "loop"
    /\ WorkersGone
    /\ UNCHANGED <<total, workers, round_no, pending, result, track_files, tracker>>
    /\ UNCHANGED <<gate_vars, attempt_vars, item_vars, aux_vars>>

(* lines 304-392: the result, and the finally that removes the directory *)
StreamFinish ==
    /\ result' = StreamResult(aggregate_results, total, workers, round_no)
    /\ track_files' = {}
    /\ tracker' = [w \in WorkerIds |-> <<>>]
    /\ rpc' = "done"
    /\ UNCHANGED <<total, workers, round_no, pending, aggregate_results, shards,
                   wpc, pending_list, wpos, results, attempted>>
    /\ UNCHANGED <<gate_vars, attempt_vars, item_vars, aux_vars>>

(* lines 254-256: pending_pairs is empty, or the round budget is used up *)
StreamLoopExit ==
    /\ rpc = "loop"
    /\ (pending = <<>> \/ round_no >= MaxRounds)
    /\ StreamFinish

(* lines 257-258: the wall-clock cap is exceeded at the head of the loop *)
StreamTimeCapExit ==
    /\ rpc = "loop"
    /\ pending # <<>>
    /\ round_no >= 1
    /\ round_no < MaxRounds
    /\ StreamFinish

StreamNext ==
    \/ StreamStartRound
    \/ \E w \in WorkerIds : WorkerStart(w)
    \/ \E w \in WorkerIds : WorkerItem(w)
    \/ StreamEndRound
    \/ StreamLoopExit
    \/ StreamTimeCapExit

SpecStream == Init /\ [][StreamNext]_vars

(* ------------- one attempt: _do_one and page.create_rate ---------------- *)
(* the statuses create_entry_and_submit returns after the footer click *)
SubmitStatuses == {"created", "dialog_open", "unknown", "validation_error"}

(* worker.py lines 170-183: the worker thread calls _do_one, which calls   *)
(* page.create_rate(..., commit_gate=commit_gate)                          *)
AttemptCall(t) ==
    /\ apc[t] = "idle"
    /\ apc' = [apc EXCEPT ![t] = "call"]
    /\ ares' = [ares EXCEPT ![t] = ""]
    /\ UNCHANGED <<batch_vars, gate_vars, item_vars, aux_vars>>

(* page.py lines 740-756 and 632-661: create_rate hands its arguments to   *)
(* create_entry_and_submit, which opens the form and fills it              *)
AttemptFill(t) ==
    /\ apc[t] = "call"
    /\ apc' = [apc EXCEPT ![t] = "fill"]
    /\ UNCHANGED ares
    /\ UNCHANGED <<batch_vars, gate_vars, item_vars, aux_vars>>

(* page.py lines 664-674: the pre-submit validation fails *)
AttemptInvalid(t) ==
    /\ apc[t] = "fill"
    /\ apc' = [apc EXCEPT ![t] = "idle"]
    /\ ares' = [ares EXCEPT ![t] = "validation_error"]
    /\ UNCHANGED <<batch_vars, gate_vars, item_vars, aux_vars>>

(* page.py line 676: first_phase = self._click_footer_create(clicks=2),    *)
(* the footer Create / Activate submission; no line of page.py enters      *)
(* commit_gate, so the gate's state is left as it is                       *)
AttemptCommit(t) ==
    /\ apc[t] = "fill"
    /\ apc' = [apc EXCEPT ![t] = "commit"]
    /\ UNCHANGED ares
    /\ UNCHANGED <<batch_vars, gate_vars, item_vars, aux_vars>>

(* page.py lines 677-738: the dict returned after the submission *)
AttemptReturn(t) ==
    /\ apc[t] = "commit"
    /\ \E st \in SubmitStatuses :
          ares' = [ares EXCEPT ![t] = st]
    /\ apc' = [apc EXCEPT ![t] = "idle"]
    /\ UNCHANGED <<batch_vars, gate_vars, item_vars, aux_vars>>

(* an exception leaves the attempt: the TypeError of the call itself       *)
(* (create_rate declares no commit_gate parameter) or a selenium exception *)
(* of a later step                                                         *)
AttemptRaise(t) ==
    /\ apc[t] \in {"call", "fill", "commit"}
    /\ \E exc \in IF apc[t] = "call" THEN {"OtherException"} ELSE Faults :
          ares' = [ares EXCEPT ![t] = exc]
    /\ apc' = [apc EXCEPT ![t] = "idle"]
    /\ UNCHANGED <<batch_vars, gate_vars, item_vars, aux_vars>>

AttemptInit ==
    /\ BatchIdle
    /\ GateInit
    /\ AttemptIdle
    /\ ItemIdle
    /\ AuxIdle

AttemptNext ==
    \/ \E t \in ThreadIds : AttemptCall(t)
    \/ \E t \in ThreadIds : AttemptFill(t)
    \/ \E t \in ThreadIds : AttemptInvalid(t)
    \/ \E t \in ThreadIds : AttemptCommit(t)
    \/ \E t \in ThreadIds : AttemptReturn(t)
    \/ \E t \in ThreadIds : AttemptRaise(t)

SpecAttempt == AttemptInit /\ [][AttemptNext]_vars

(* ------------- tracking._save_tracking_atomic and its readers ----------- *)
(* line 57: the file write_text writes to, tmp = path.with_suffix(".json.tmp") *)
WriteTarget_InPlace == "path"

WriteTarget == "tmp"

(* the tracking file of one worker, as init_tracking_files saved it *)
SaveInit ==
    /\ BatchIdle
    /\ GateIdle
    /\ AttemptIdle
    /\ ItemIdle
    /\ LoginIdle
    /\ ArchIdle
    /\ DailyIdle
    /\ SessIdle
    /\ path_file = LET doc == InitDoc(Enumerate([i \in 1..TrackItems |-> i]))
                   IN FileOf(doc, Len(doc))
    /\ tmp_file = NoFile
    /\ save_pc = "idle"
    /\ save_doc = <<>>
    /\ loaded = _load_tracking(path_file)

(* mark_item_status lines 84-94 and _save_tracking_atomic line 58: the doc *)
(* is loaded and changed, and write_text opens (truncates) its target      *)
MarkBegin ==
    /\ save_pc = "idle"
    /\ \E index \in 1..TrackItems, status \in TrackerStatuses :
          LET doc == mark_item_status(_load_tracking(path_file).items, index, status)
          IN /\ FirstWithIndex(_load_tracking(path_file).items, index) # 0
             /\ save_doc' = doc
             /\ IF WriteTarget = "tmp"
                THEN tmp_file' = FileOf(doc, 0) /\ UNCHANGED path_file
                ELSE path_file' = FileOf(doc, 0) /\ UNCHANGED tmp_file
    /\ save_pc' = "write"
    /\ UNCHANGED loaded
    /\ UNCHANGED <<batch_vars, gate_vars, attempt_vars, item_vars, login_vars, arch_vars, daily_vars, sess_vars>>

(* line 58: write_text writes the next part of the text *)
SaveWrite ==
    /\ save_pc = "write"
    /\ IF WriteTarget = "tmp"
       THEN /\ tmp_file.len < Len(save_doc)
            /\ tmp_file' = FileOf(save_doc, tmp_file.len + 1)
            /\ UNCHANGED path_file
       ELSE /\ path_file.len < Len(save_doc)
            /\ path_file' = FileOf(save_doc, path_file.len + 1)
            /\ UNCHANGED tmp_file
    /\ UNCHANGED <<save_pc, save_doc, loaded>>
    /\ UNCHANGED <<batch_vars, gate_vars, attempt_vars, item_vars, login_vars, arch_vars, daily_vars, sess_vars>>

(* line 59: tmp.replace(path), one rename *)
SaveReplace ==
    /\ save_pc = "write"
    /\ IF WriteTarget = "tmp"
       THEN /\ tmp_file.len = Len(save_doc)
            /\ path_file' = tmp_file
            /\ tmp_file' = NoFile
       ELSE /\ path_file.len = Len(save_doc)
            /\ UNCHANGED <<path_file, tmp_file>>
    /\ save_pc' = "idle"
    /\ save_doc' = <<>>
    /\ UNCHANGED loaded
    /\ UNCHANGED <<batch_vars, gate_vars, attempt_vars, item_vars, login_vars, arch_vars, daily_vars, sess_vars>>

(* the writing thread or process is killed inside _save_tracking_atomic;   *)
(* the files stay as they are                                              *)
SaveCrash ==
    /\ save_pc = "write"
    /\ save_pc' = "idle"
    /\ save_doc' = <<>>
    /\ UNCHANGED <<path_file, tmp_file, loaded>>
    /\ UNCHANGED <<batch_vars, gate_vars, attempt_vars, item_vars, login_vars, arch_vars, daily_vars, sess_vars>>

(* iter_pending_items, pending_rows_for_report, _dir_has_any_pending:      *)
(* doc = _load_tracking(path) of an existing driver-<w>.json               *)
ReadTracking ==
    /\ path_file.exists
    /\ loaded' = _load_tracking(path_file)
    /\ UNCHANGED <<path_file, tmp_file, save_pc, save_doc>>
    /\ UNCHANGED <<batch_vars, gate_vars, attempt_vars, item_vars, login_vars, arch_vars, daily_vars, sess_vars>>

SaveNext ==
    \/ MarkBegin
    \/ SaveWrite
    \/ SaveReplace
    \/ SaveCrash
    \/ ReadTracking

SpecSave == SaveInit /\ [][SaveNext]_vars

(* ------------------------- chunk_evenly alone --------------------------- *)
(* the (index, item) pairs of a set of indices, in ascending order: the    *)
(* lists run_force_all_done and stream_events hand to chunk_evenly          *)
RECURSIVE IndexedPairs(_)
IndexedPairs(S) ==
    IF S = {} THEN <<>>
    ELSE LET i == CHOOSE x \in S : \A y \in S : x <= y
         IN <<<<i, i>>>> \o IndexedPairs(S \ {i})

ChunkInit ==
    /\ total = MaxChunkItems
    /\ workers \in 1..(MaxChunkItems + 1)
    /\ rpc = "chunk"
    /\ round_no = 0
    /\ pending \in {IndexedPairs(S) : S \in (SUBSET (1..MaxChunkItems)) \ {{}}}
    /\ aggregate_results = <<>>
    /\ result = NoResult
    /\ shards = <<>>
    /\ track_files = {}
    /\ tracker = [w \in WorkerIds |-> <<>>]
    /\ wpc = [w \in WorkerIds |-> "idle"]
    /\ pending_list = [w \in WorkerIds |-> <<>>]
    /\ wpos = [w \in WorkerIds |-> 0]
    /\ results = [w \in WorkerIds |-> <<>>]
    /\ attempted = [w \in WorkerIds |-> {}]
    /\ GateIdle
    /\ AttemptIdle
    /\ ItemIdle
    /\ AuxIdle

(* shards = chunk_evenly(indexed, workers) *)
ChunkApply ==
    /\ rpc = "chunk"
    /\ shards' = chunk_evenly(pending, workers)
    /\ rpc' = "chunked"
    /\ UNCHANGED <<total, workers, round_no, pending, aggregate_results, result,
                   track_files, tracker, wpc, pending_list, wpos, results, attempted>>
    /\ UNCHANGED <<gate_vars, attempt_vars, item_vars, aux_vars>>

SpecChunk == ChunkInit /\ [][ChunkApply]_vars

(* ----------------------- init_tracking_files ---------------------------- *)
(* the tracking directory holds some of the files an earlier run of the    *)
(* batch wrote, for a sharding over old_workers workers, each entry with   *)
(* the status its worker last wrote; the shards of the new round are ready *)
TrackInitInit ==
    /\ total \in 1..MaxItems
    /\ workers \in 1..(MaxWorkers + 1)
    /\ rpc = "init_files"
    /\ round_no = 1
    /\ pending = [i \in 1..total |-> <<i, i>>]
    /\ aggregate_results = <<>>
    /\ result = NoResult
    /\ shards = chunk_evenly(pending, workers)
    /\ \E old_workers \in 1..(MaxWorkers + 1), sts \in [1..total -> TrackerStatuses] :
          LET old == chunk_evenly(pending, old_workers)
          IN /\ track_files \in SUBSET (1..Len(old))
             /\ tracker = [w \in WorkerIds |->
                              IF w \in track_files THEN LeftDocs(old, sts)[w] ELSE <<>>]
    /\ wpc = [w \in WorkerIds |-> "idle"]
    /\ pending_list = [w \in WorkerIds |-> <<>>]
    /\ wpos = [w \in WorkerIds |-> 0]
    /\ results = [w \in WorkerIds |-> <<>>]
    /\ attempted = [w \in WorkerIds |-> {}]
    /\ GateIdle
    /\ AttemptIdle
    /\ ItemIdle
    /\ AuxIdle

(* runner.py line 104: init_tracking_files(self.track_dir, shards) *)
TrackInitApply ==
    /\ rpc = "init_files"
    /\ LET tf == init_tracking_files(track_files, tracker, shards)
       IN /\ track_files' = tf.files
          /\ tracker' = tf.docs
    /\ rpc' = "files_ready"
    /\ UNCHANGED <<total, workers, round_no, pending, aggregate_results, result, shards,
                   wpc, pending_list, wpos, results, attempted>>
    /\ UNCHANGED <<gate_vars, attempt_vars, item_vars, aux_vars>>

SpecTrackInit == TrackInitInit /\ [][TrackInitApply]_vars

(* ----------------- worker_process and the login throttle ---------------- *)
(* one round: runner.py:102 builds login_sem with LOGIN_CONCURRENCY permits *)
(* and hands it to every worker of the round (runner.py:113-116)            *)
LoginWorkers == 1..(MaxWorkers + 1)

(* a with-block exit that keeps the permit when the body raised *)
WithExit_LeakOnRaise(permits, raised) == IF raised THEN permits ELSE permits + 1

(* worker.py:117-118, `with login_sem:`: __exit__ releases the permit on a *)
(* normal return of login(drv) and on an exception alike                   *)
WithExit(permits, raised) == permits + 1

LoginInit ==
    /\ BatchIdle
    /\ GateIdle
    /\ AttemptIdle
    /\ ItemIdle
    /\ SaveIdle
    /\ ArchIdle
    /\ DailyIdle
    /\ SessIdle
    /\ login_cap \in 1..MaxLoginConcurrency
    /\ login_sem = login_cap
    /\ lpc = [w \in WorkerIds |-> IF w \in LoginWorkers THEN "start" ELSE "idle"]
    /\ lleft = [w \in WorkerIds |-> IF w \in LoginWorkers THEN MaxLoginItems ELSE 0]
    /\ lre = [w \in WorkerIds |-> FALSE]

(* the current item of worker w is finished (a row is appended, break) *)
LoginItemDone(w) ==
    /\ lleft' = [lleft EXCEPT ![w] = @ - 1]
    /\ lre' = [lre EXCEPT ![w] = FALSE]
    /\ lpc' = [lpc EXCEPT ![w] = IF lleft[w] - 1 = 0 THEN "done" ELSE "item"]

(* _recreate_driver_and_reopen raised: the first open returns              *)
(* {"results": []} (worker.py:154-160), a rebuild ends the item with a     *)
(* recover_failed row (e.g. worker.py:230-238)                             *)
LoginOpenFailed(w) ==
    IF lre[w] THEN LoginItemDone(w)
    ELSE /\ lpc' = [lpc EXCEPT ![w] = "done"]
         /\ UNCHANGED <<lleft, lre>>

(* worker.py:154 and 115-116: _kill_driver, get_driver, up to the `with` *)
LoginBegin(w) ==
    /\ lpc[w] = "start"
    /\ lpc' = [lpc EXCEPT ![w] = "login_wait"]
    /\ UNCHANGED <<login_cap, login_sem, lleft, lre>>
    /\ UNCHANGED <<batch_vars, gate_vars, attempt_vars, item_vars, save_vars, arch_vars, daily_vars, sess_vars>>

(* worker.py:117: login_sem.__enter__ blocks while no permit is free *)
LoginAcquire(w) ==
    /\ lpc[w] = "login_wait"
    /\ login_sem > 0
    /\ login_sem' = login_sem - 1
    /\ lpc' = [lpc EXCEPT ![w] = "login"]
    /\ UNCHANGED <<login_cap, lleft, lre>>
    /\ UNCHANGED <<batch_vars, gate_vars, attempt_vars, item_vars, save_vars, arch_vars, daily_vars, sess_vars>>

(* worker.py:118: login(drv) returns or raises, and the with-block exits *)
LoginExit(w) ==
    /\ lpc[w] = "login"
    /\ \E raised \in BOOLEAN :
          /\ login_sem' = WithExit(login_sem, raised)
          /\ IF raised THEN LoginOpenFailed(w)
             ELSE /\ lpc' = [lpc EXCEPT ![w] = "open"]
                  /\ UNCHANGED <<lleft, lre>>
    /\ UNCHANGED login_cap
    /\ UNCHANGED <<batch_vars, gate_vars, attempt_vars, item_vars, save_vars, arch_vars, daily_vars, sess_vars>>

(* worker.py:119-130: wait_ui5_idle and the _open_currency_app attempts *)
LoginOpenApp(w) ==
    /\ lpc[w] = "open"
    /\ \E ok \in BOOLEAN :
          IF ok THEN /\ lpc' = [lpc EXCEPT ![w] = "item"]
                     /\ UNCHANGED <<lleft, lre>>
          ELSE LoginOpenFailed(w)
    /\ UNCHANGED <<login_cap, login_sem>>
    /\ UNCHANGED <<batch_vars, gate_vars, attempt_vars, item_vars, save_vars, arch_vars, daily_vars, sess_vars>>

(* worker.py:162-193: _do_one on the current item: it reaches the commit   *)
(* sub-step, returns without it, or raises; a fault that calls for a       *)
(* rebuild runs _recreate_driver_and_reopen once per item (e.g. line 219)  *)
LoginItem(w) ==
    /\ lpc[w] = "item"
    /\ \E o \in {"commit", "returned", "rebuild"} :
          CASE o = "commit" -> /\ lpc' = [lpc EXCEPT ![w] = "gate_wait"]
                               /\ UNCHANGED <<lleft, lre>>
            [] o = "returned" -> LoginItemDone(w)
            [] o = "rebuild" ->
                 IF lre[w] THEN LoginItemDone(w)
                 ELSE /\ lpc' = [lpc EXCEPT ![w] = "start"]
                      /\ lre' = [lre EXCEPT ![w] = TRUE]
                      /\ UNCHANGED lleft
    /\ UNCHANGED <<login_cap, login_sem>>
    /\ UNCHANGED <<batch_vars, gate_vars, attempt_vars, item_vars, save_vars, arch_vars, daily_vars, sess_vars>>

(* the worker waited for the commit gate, passed it and the attempt ended *)
LoginGatePassed(w) ==
    /\ lpc[w] = "gate_wait"
    /\ LoginItemDone(w)
    /\ UNCHANGED <<login_cap, login_sem>>
    /\ UNCHANGED <<batch_vars, gate_vars, attempt_vars, item_vars, save_vars, arch_vars, daily_vars, sess_vars>>

LoginNext ==
    \/ \E w \in LoginWorkers : LoginBegin(w)
    \/ \E w \in LoginWorkers : LoginAcquire(w)
    \/ \E w \in LoginWorkers : LoginExit(w)
    \/ \E w \in LoginWorkers : LoginOpenApp(w)
    \/ \E w \in LoginWorkers : LoginItem(w)
    \/ \E w \in LoginWorkers : LoginGatePassed(w)

SpecLogin == LoginInit /\ [][LoginNext]_vars

(* --------------------- tracking.move_live_to_finished ------------------- *)
(* the driver-<w>.json files of the batch directory *)
ArchFileIds == {1, 2}

(* the batch directory as init_tracking_files leaves it: every file with   *)
(* TrackItems entries, all Pending                                         *)
ArchFreshDir ==
    DirOf([w \in ArchFileIds |->
              InitDoc([j \in 1..TrackItems |->
                          <<(w - 1) * TrackItems + j, (w - 1) * TrackItems + j>>])])

(* a scan that reads the first tracker file only *)
_dir_has_any_pending_FirstFileOnly(track_dir) ==
    \E w \in {x \in DOMAIN track_dir.files : \A y \in DOMAIN track_dir.files : x <= y} :
        \E j \in 1..Len(track_dir.files[w]) : IsPendingEntry(track_dir.files[w][j])

(* tracking.py lines 135-141: some row of some driver-*.json is Pending *)
_dir_has_any_pending(track_dir) ==
    \E w \in DOMAIN track_dir.files :
        \E j \in 1..Len(track_dir.files[w]) : IsPendingEntry(track_dir.files[w][j])

(* tracking.py lines 143-164; fault says where the try block raises, if it *)
(* does: at dest.exists(), or at shutil.move after the old dest is removed *)
move_live_to_finished(tdir, dest, fault) ==
    IF ~tdir.exists
    THEN [live |-> tdir, finished |-> dest, report |-> "no_live_dir"]
    ELSE IF _dir_has_any_pending(tdir)
    THEN [live |-> tdir, finished |-> dest, report |-> "still_pending"]
    ELSE IF fault = "exists"
    THEN [live |-> tdir, finished |-> dest, report |-> "move_failed"]
    ELSE IF fault = "move"
    THEN [live |-> tdir, finished |-> NoDir, report |-> "move_failed"]
    ELSE [live |-> NoDir, finished |-> tdir, report |-> "moved"]

(* the live directory of a batch whose trackers were just written; the     *)
(* day's archive may hold an older directory of the same batch_id          *)
ArchInit ==
    /\ BatchIdle
    /\ GateIdle
    /\ AttemptIdle
    /\ ItemIdle
    /\ SaveIdle
    /\ LoginIdle
    /\ DailyIdle
    /\ SessIdle
    /\ arch_live = ArchFreshDir
    /\ arch_finished \in
          {NoDir, DirOf([w \in ArchFileIds |-> [j \in 1..Len(ArchFreshDir.files[w]) |->
                     [ArchFreshDir.files[w][j] EXCEPT !.status = "Done"]]])}
    /\ arch_report = ""
    /\ arch_n = 0

(* mark_item_status, lines 79-94: a worker of the batch sets the status of *)
(* an entry of its tracking file                                           *)
ArchMark ==
    /\ arch_live.exists
    /\ \E w \in DOMAIN arch_live.files :
          \E j \in 1..Len(arch_live.files[w]), status \in TrackerStatuses :
              arch_live' = [arch_live EXCEPT !.files[w] =
                               mark_item_status(@, @[j].index, status)]
    /\ UNCHANGED <<arch_finished, arch_report, arch_n>>
    /\ UNCHANGED <<batch_vars, gate_vars, attempt_vars, item_vars, save_vars, login_vars, daily_vars, sess_vars>>

(* one call of move_live_to_finished(batch_id, track_dir) *)
ArchMove ==
    /\ arch_n < MaxArchCalls
    /\ \E fault \in {"", "exists", "move"} :
          LET r == move_live_to_finished(arch_live, arch_finished, fault)
          IN /\ arch_live' = r.live
             /\ arch_finished' = r.finished
             /\ arch_report' = r.report
    /\ arch_n' = arch_n + 1
    /\ UNCHANGED <<batch_vars, gate_vars, attempt_vars, item_vars, save_vars, login_vars, daily_vars, sess_vars>>

ArchNext ==
    \/ ArchMark
    \/ ArchMove

SpecArchive == ArchInit /\ [][ArchNext]_vars

(* ------------- the daily rollup and the pruning of Live ----------------- *)
DailyBatchIds == 1..MaxDailyBatches

(* the result dicts handed to append_daily_rollup *)
DailyResults ==
    { [total |-> 2, created |-> 2, failed |-> 0, skipped |-> 0, ok |-> TRUE],
      [total |-> 2, created |-> 1, failed |-> 1, skipped |-> 0, ok |-> FALSE],
      [total |-> 1, created |-> 0, failed |-> 0, skipped |-> 1, ok |-> TRUE] }

(* reporting.py line 170: the line of a batch (the timestamp left out) *)
RollupLine(batch_id, result_obj) ==
    [batch_id |-> batch_id, total |-> result_obj.total, created |-> result_obj.created,
     failed |-> result_obj.failed, skipped |-> result_obj.skipped, ok |-> result_obj.ok]

(* reporting.py lines 121-150: the totals are summed over every line of    *)
(* rollup.ndjson, whatever its batch_id                                    *)
RECURSIVE rebuild_daily_final(_)
rebuild_daily_final(items) ==
    IF items = <<>> THEN NoTotals
    ELSE LET t == rebuild_daily_final(SubSeq(items, 1, Len(items) - 1))
             it == items[Len(items)]
         IN [batches |-> t.batches + 1,
             received |-> t.received + it.total,
             created |-> t.created + it.created,
             failed |-> t.failed + it.failed,
             skipped |-> t.skipped + it.skipped,
             ok_batches |-> t.ok_batches + (IF it.ok THEN 1 ELSE 0),
             nok_batches |-> t.nok_batches + (IF it.ok THEN 0 ELSE 1)]

(* reporting.py lines 168-172: one line is appended to rollup.ndjson *)
append_daily_rollup(lines, batch_id, result_obj) ==
    Append(lines, RollupLine(batch_id, result_obj))

(* tracking.py lines 166-189: the keep_n newest directories are kept *)
prune_live_trackers_keep_last_n(dirs, keep_n) ==
    SubSeq(dirs, 1, Min(Max(0, keep_n), Len(dirs)))

DailyInit ==
    /\ BatchIdle
    /\ GateIdle
    /\ AttemptIdle
    /\ ItemIdle
    /\ SaveIdle
    /\ LoginIdle
    /\ ArchIdle
    /\ SessIdle
    /\ rollup = <<>>
    /\ final_totals = NoTotals
    /\ live_dirs = <<>>
    /\ daily_last = <<>>

(* tracking_dir_for_batch, tracking.py lines 39-43: a batch gets its       *)
(* directory under Live                                                    *)
DailyNewBatch ==
    /\ \E b \in DailyBatchIds :
          /\ \A k \in 1..Len(live_dirs) : live_dirs[k] # b
          /\ live_dirs' = <<b>> \o live_dirs
          /\ daily_last' = <<"new", b>>
    /\ UNCHANGED <<rollup, final_totals>>
    /\ UNCHANGED <<batch_vars, gate_vars, attempt_vars, item_vars, save_vars, login_vars, arch_vars, sess_vars>>

(* append_daily_rollup, reporting.py lines 161-180: the append, then       *)
(* rebuild_daily_final, whose exception is swallowed                       *)
DailyAppend ==
    /\ Len(rollup) < MaxRollupLines
    /\ \E b \in DailyBatchIds, result_obj \in DailyResults, rebuilt \in BOOLEAN :
          /\ rollup' = append_daily_rollup(rollup, b, result_obj)
          /\ final_totals' = IF rebuilt THEN rebuild_daily_final(rollup') ELSE final_totals
          /\ daily_last' = <<"rollup", b, result_obj, rebuilt>>
    /\ UNCHANGED live_dirs
    /\ UNCHANGED <<batch_vars, gate_vars, attempt_vars, item_vars, save_vars, login_vars, arch_vars, sess_vars>>

(* prune_live_trackers_keep_last_n(keep_n) *)
DailyPrune ==
    /\ \E keep_n \in 0..MaxDailyBatches :
          /\ live_dirs' = prune_live_trackers_keep_last_n(live_dirs, keep_n)
          /\ daily_last' = <<"prune", keep_n>>
    /\ UNCHANGED <<rollup, final_totals>>
    /\ UNCHANGED <<batch_vars, gate_vars, attempt_vars, item_vars, save_vars, login_vars, arch_vars, sess_vars>>

DailyNext ==
    \/ DailyNewBatch
    \/ DailyAppend
    \/ DailyPrune

SpecDaily == DailyInit /\ [][DailyNext]_vars

(* ------- worker_process: the session, the watchdog, the stop signal ------ *)
(* one worker with a queue of MaxSessItems items; stop_event is an         *)
(* argument of worker_process, set or not when the worker starts           *)
SessInit ==
    /\ BatchIdle
    /\ GateIdle
    /\ AttemptIdle
    /\ ItemIdle
    /\ SaveIdle
    /\ LoginIdle
    /\ ArchIdle
    /\ DailyIdle
    /\ spc = "recreate_kill"
    /\ sdrv = None
    /\ spage = None
    /\ sopen = {}
    /\ sleft = MaxSessItems
    /\ sretry = FALSE
    /\ shung = FALSE
    /\ srows = 0
    /\ stimers = [t \in TimerIds |-> "idle"]
    /\ stop_event \in BOOLEAN
    /\ sraised = FALSE
    /\ snext = 1

(* threading.Timer(...).start() in _do_one, lines 171-173 *)
ArmTimer(timers) ==
    LET t == CHOOSE x \in TimerIds :
                 timers[x] = "idle" /\ \A y \in TimerIds : timers[y] = "idle" => x <= y
    IN [timers EXCEPT ![t] = "armed"]

(* timer.cancel() in the finally of _do_one, lines 184-188: a timer whose  *)
(* callback has started is not stopped                                     *)
CancelTimer(timers) ==
    [t \in TimerIds |-> IF timers[t] = "armed" THEN "done" ELSE timers[t]]

(* a row is appended for the current item and the loop breaks *)
SessItemDone ==
    /\ srows' = srows + 1
    /\ sleft' = sleft - 1
    /\ sretry' = FALSE
    /\ spc' = "between"

(* _recreate_driver_and_reopen raised: lines 155-160 for the first open,   *)
(* the recover_failed row (e.g. lines 231-238) in a recover path           *)
SessReopenFailed ==
    IF sretry THEN SessItemDone
    ELSE /\ spc' = "finally"
         /\ UNCHANGED <<srows, sleft, sretry>>

(* _kill_driver called by the worker, lines 103-110 and 115 *)
SessKill ==
    /\ spc = "recreate_kill"
    /\ sopen' = sopen \ {sdrv}
    /\ sdrv' = None
    /\ spc' = "recreate_new"
    /\ UNCHANGED <<spage, sleft, sretry, shung, srows, stimers, stop_event, sraised, snext>>
    /\ UNCHANGED <<batch_vars, gate_vars, attempt_vars, item_vars, save_vars, login_vars, arch_vars, daily_vars>>

(* line 116: drv = get_driver(...) *)
SessNew ==
    /\ spc = "recreate_new"
    /\ \E ok \in BOOLEAN :
          IF ok
          THEN /\ sdrv' = snext
               /\ sopen' = sopen \cup {snext}
               /\ snext' = snext + 1
               /\ spc' = "recreate_login"
               /\ UNCHANGED <<srows, sleft, sretry>>
          ELSE /\ SessReopenFailed
               /\ UNCHANGED <<sdrv, sopen, snext>>
    /\ UNCHANGED <<spage, shung, stimers, stop_event, sraised>>
    /\ UNCHANGED <<batch_vars, gate_vars, attempt_vars, item_vars, save_vars, login_vars, arch_vars, daily_vars>>

(* lines 117-130: login(drv) and _open_currency_app(drv) on the session    *)
(* drv names now; in a recover path _do_one is then called, lines 219-220  *)
SessLogin ==
    /\ spc = "recreate_login"
    /\ \E ok \in BOOLEAN :
          IF ok /\ sdrv # None /\ sdrv \in sopen
          THEN /\ spage' = sdrv
               /\ spc' = IF sretry THEN "call" ELSE "between"
               /\ stimers' = IF sretry THEN ArmTimer(stimers) ELSE stimers
               /\ UNCHANGED <<srows, sleft, sretry>>
          ELSE /\ SessReopenFailed
               /\ UNCHANGED <<spage, stimers>>
    /\ UNCHANGED <<sdrv, sopen, shung, stop_event, sraised, snext>>
    /\ UNCHANGED <<batch_vars, gate_vars, attempt_vars, item_vars, save_vars, login_vars, arch_vars, daily_vars>>

(* lines 162-173: the head of the item loop: a set stop_event is cleared,  *)
(* the timer is armed and page.create_rate called                          *)
SessNextItem ==
    /\ spc = "between"
    /\ IF sleft = 0
       THEN /\ spc' = "finally"
            /\ UNCHANGED <<stop_event, stimers>>
       ELSE /\ stop_event' = FALSE
            /\ stimers' = ArmTimer(stimers)
            /\ spc' = "call"
    /\ UNCHANGED <<sdrv, spage, sopen, sleft, sretry, shung, srows, sraised, snext>>
    /\ UNCHANGED <<batch_vars, gate_vars, attempt_vars, item_vars, save_vars, login_vars, arch_vars, daily_vars>>

(* the call blocks inside the session *)
SessHang ==
    /\ spc = "call"
    /\ ~shung
    /\ spage \in sopen
    /\ shung' = TRUE
    /\ UNCHANGED <<spc, sdrv, spage, sopen, sleft, sretry, srows, stimers, stop_event, sraised, snext>>
    /\ UNCHANGED <<batch_vars, gate_vars, attempt_vars, item_vars, save_vars, login_vars, arch_vars, daily_vars>>

(* the call returns a dict; its row is appended *)
SessReturn ==
    /\ spc = "call"
    /\ ~shung
    /\ spage \in sopen
    /\ stimers' = CancelTimer(stimers)
    /\ SessItemDone
    /\ UNCHANGED <<sdrv, spage, sopen, shung, stop_event, sraised, snext>>
    /\ UNCHANGED <<batch_vars, gate_vars, attempt_vars, item_vars, save_vars, login_vars, arch_vars, daily_vars>>

(* the call raises; a hung call does so once its session is torn down.     *)
(* First path: a fatal session fault goes to the rebuild (lines 284-290),  *)
(* an exception no handler names leaves worker_process; in a recover path  *)
(* any exception gives the recover_failed row                              *)
SessRaise ==
    /\ spc = "call"
    /\ shung => spage \notin sopen
    /\ stimers' = CancelTimer(stimers)
    /\ shung' = FALSE
    /\ \E kind \in {"FatalWebDriver", "OtherException"} :
          IF sretry THEN SessItemDone /\ UNCHANGED sraised
          ELSE IF kind = "FatalWebDriver"
          THEN /\ sretry' = TRUE
               /\ spc' = "recreate_kill"
               /\ UNCHANGED <<srows, sleft, sraised>>
          ELSE /\ sraised' = TRUE
               /\ spc' = "finally"
               /\ UNCHANGED <<srows, sleft, sretry>>
    /\ UNCHANGED <<sdrv, spage, sopen, stop_event, snext>>
    /\ UNCHANGED <<batch_vars, gate_vars, attempt_vars, item_vars, save_vars, login_vars, arch_vars, daily_vars>>

(* lines 354-359: finally: if drv: drv.quit() *)
SessFinally ==
    /\ spc = "finally"
    /\ sopen' = sopen \ {sdrv}
    /\ spc' = "exited"
    /\ UNCHANGED <<sdrv, spage, sleft, sretry, shung, srows, stimers, stop_event, sraised, snext>>
    /\ UNCHANGED <<batch_vars, gate_vars, attempt_vars, item_vars, save_vars, login_vars, arch_vars, daily_vars>>

(* _watchdog_kill on the timer thread, WATCHDOG_SECONDS after the call     *)
(* began: _kill_driver reads drv and quits that session (lines 105-107)    *)
TimerFire(t) ==
    /\ stimers[t] = "armed"
    /\ sopen' = sopen \ {sdrv}
    /\ stimers' = [stimers EXCEPT ![t] = "quit"]
    /\ UNCHANGED <<spc, sdrv, spage, sleft, sretry, shung, srows, stop_event, sraised, snext>>
    /\ UNCHANGED <<batch_vars, gate_vars, attempt_vars, item_vars, save_vars, login_vars, arch_vars, daily_vars>>

(* ... and then assigns drv = None (line 110) *)
TimerClear(t) ==
    /\ stimers[t] = "quit"
    /\ sdrv' = None
    /\ stimers' = [stimers EXCEPT ![t] = "done"]
    /\ UNCHANGED <<spc, spage, sopen, sleft, sretry, shung, srows, stop_event, sraised, snext>>
    /\ UNCHANGED <<batch_vars, gate_vars, attempt_vars, item_vars, save_vars, login_vars, arch_vars, daily_vars>>

SessNext ==
    \/ SessKill
    \/ SessNew
    \/ SessLogin
    \/ SessNextItem
    \/ SessHang
    \/ SessReturn
    \/ SessRaise
    \/ SessFinally
    \/ \E t \in TimerIds : TimerFire(t)
    \/ \E t \in TimerIds : TimerClear(t)

SpecSession == SessInit /\ [][SessNext]_vars

(* ------------------- worker_process: the loop over one item ------------- *)
ItemInit ==
    /\ BatchIdle
    /\ GateIdle
    /\ AttemptIdle
    /\ item_pc = "call"
    /\ item_att \in ItemScripts
    /\ item_reopen_ok \in BOOLEAN
    /\ item_effect = NoEffect
    /\ item_rows = 0
    /\ AuxIdle

(* worker.py lines 189-352: the loop runs for the item until it breaks or  *)
(* an exception leaves it                                                  *)
ItemRun ==
    /\ item_pc = "call"
    /\ item_effect' = ItemLoop(item_att, 1, 0, item_reopen_ok)
    /\ item_rows' = RowsAppended(item_att, 1, 0, item_reopen_ok)
    /\ item_pc' = "done"
    /\ UNCHANGED <<item_att, item_reopen_ok>>
    /\ UNCHANGED <<batch_vars, gate_vars, attempt_vars, aux_vars>>

SpecItem == ItemInit /\ [][ItemRun]_vars

(* ============================ claims ==================================== *)
IsTerminalRow(row) == Lower(row.status) # "pending"

PendingItems == {pending[i][2] : i \in 1..Len(pending)}

(* C1: the returned result has exactly one final row for each index        *)
(* 1..total (final_rows lists aggregate_results by ascending key), every   *)
(* row falls in exactly one of created / skipped / error / still-pending,  *)
(* and created + skipped + failed == total, failed being every row that is *)
(* neither created nor skipped.                                            *)
C1_ResultAccountsForEveryIndex ==
    rpc = "done" =>
        /\ DOMAIN aggregate_results = 1..total
        /\ Len(result.results) = total
        /\ \A i \in 1..total : result.results[i] = aggregate_results[i]
        /\ result.total = total
        /\ result.created + result.skipped + result.failed = total
        /\ LET rows == result.results
               still_pending == CountStatus(rows, "pending")
               errors == Cardinality({i \in 1..Len(rows) :
                            Lower(rows[i].status) \notin {"created", "skipped", "pending"}})
           IN /\ result.created + result.skipped + errors + still_pending = total
              /\ result.failed = errors + still_pending

C1_Witness ==
    /\ rpc = "done"
    /\ total = MaxItems
    /\ result.created >= 1
    /\ result.failed >= 1
    /\ \E i \in 1..Len(result.results) : Lower(result.results[i].status) = "pending"
    /\ \E i \in 1..Len(result.results) : Lower(result.results[i].status) = "error"

(* C2: an item's index is stable across rounds: in every round the index  *)
(* under which an item is sharded, queued by its worker and reported in    *)
(* the worker's row is its 1-based position in the original batch.         *)
C2_IndexStableAcrossRounds ==
    /\ \A w \in 1..Len(shards) : \A j \in 1..Len(shards[w]) :
          shards[w][j][1] = shards[w][j][2]
    /\ \A w \in WorkerIds : \A j \in 1..Len(pending_list[w]) :
          pending_list[w][j][1] = pending_list[w][j][2]
    /\ \A w \in WorkerIds : \A j \in 1..Len(results[w]) :
          results[w][j].index = results[w][j].payload

(* C3: in a round, no item is attempted by two workers, and no item that   *)
(* is not currently pending is attempted by any worker.                    *)
C3_PendingItemsAttemptedByOneWorker ==
    rpc = "pool" =>
        /\ \A w1, w2 \in WorkerIds : w1 # w2 => attempted[w1] \cap attempted[w2] = {}
        /\ \A w \in WorkerIds : attempted[w] \subseteq PendingItems

(* C4: an item whose row was terminal at the end of a round is attempted   *)
(* by no worker in a later round.                                          *)
C4_TerminalRowsNeverRevisited ==
    \A w \in WorkerIds : \A p \in attempted[w] :
        p \in DOMAIN aggregate_results => ~IsTerminalRow(aggregate_results[p])

(* C5: a tracker entry that has a terminal status is never set back to     *)
(* Pending by a later operation.                                           *)
C5_TrackerNeverRevertsToPending ==
    [][\A w \in WorkerIds : \A j \in 1..Len(tracker[w]) :
          (j <= Len(tracker'[w]) /\ ~IsPendingEntry(tracker[w][j]))
              => ~IsPendingEntry(tracker'[w][j])]_vars

(* C6: a crashed worker contributes an empty result list to the round (no *)
(* row of the round's aggregate comes from the crash itself), and the rows *)
(* returned by the other workers are recorded unchanged under their own    *)
(* indices.                                                                *)
C6_CrashedShardContributesNothing ==
    [][(rpc = "pool" /\ rpc' = "loop") =>
          /\ \A p \in DOMAIN aggregate_results' : aggregate_results'[p] # CrashRow
          /\ \A w \in WorkerIds : wpc[w] = "done" =>
                 \A j \in 1..Len(results[w]) :
                     /\ results[w][j].index \in DOMAIN aggregate_results'
                     /\ aggregate_results'[results[w][j].index] = results[w][j]]_vars

(* C7: when a worker crashed in a round, every item marked Done or Skipped *)
(* in its tracker file is reported created / skipped, and every item still *)
(* Pending in that file gets a Pending row and is requeued.                *)
C7_CrashLosesNoPersistedProgress ==
    [][(rpc = "pool" /\ rpc' = "loop") =>
          \A w \in WorkerIds : wpc[w] = "crashed" =>
              \A j \in 1..Len(tracker[w]) :
                  LET e == tracker[w][j]
                  IN /\ e.payload \in DOMAIN aggregate_results'
                     /\ e.status = "Done" =>
                            Lower(aggregate_results'[e.payload].status) = "created"
                     /\ e.status = "Skipped" =>
                            Lower(aggregate_results'[e.payload].status) = "skipped"
                     /\ e.status = "Pending" =>
                            /\ Lower(aggregate_results'[e.payload].status) = "pending"
                            /\ \E i \in 1..Len(pending') : pending'[i][2] = e.payload]_vars

(* ------------------------- commit gate claims --------------------------- *)
InBody == {t \in ThreadIds : gpc[t] = "body"}

(* C8: the number of threads inside the body guarded by commit_gate never  *)
(* exceeds COMMIT_CONCURRENCY, for keyed and unkeyed callers alike.        *)
C8_BodiesBoundedByCommitConcurrency ==
    /\ Cardinality(InBody) <= commit_concurrency
    /\ sem + Cardinality(InBody) = commit_concurrency

C8_Witness ==
    /\ commit_concurrency = 1
    /\ \E t1, t2, t3 \in ThreadIds :
          /\ gpc[t1] = "body"
          /\ gpc[t2] = "sem" /\ ~Truthy(gkey[t2])
          /\ gpc[t3] = "sem" /\ Truthy(gkey[t3])

(* C9 as stated: two calls whose keys normalize to the same token are      *)
(* never inside their guarded bodies at the same time.                     *)
C9_SameTokenNeverOverlaps ==
    \A t1, t2 \in InBody :
        (t1 # t2 /\ ~gkey[t1].none /\ ~gkey[t2].none) => gkey[t1] # gkey[t2]

(* C9 amended: two calls whose keys normalize to the same non-empty token  *)
(* (keys equal up to letter case and surrounding whitespace) are never     *)
(* inside their guarded bodies at the same time, whatever the value of     *)
(* COMMIT_CONCURRENCY.                                                     *)
C9_SameNonEmptyTokenNeverOverlaps ==
    /\ _normalize_key(TupleKey(<<Str(<<"u">>), Str(<<"e">>)>>))
          = _normalize_key(TupleKey(<<Str(<<"U">>), Str(<<" ", "e">>)>>))
    /\ \A t1, t2 \in InBody :
          (t1 # t2 /\ Truthy(gkey[t1]) /\ Truthy(gkey[t2])) => gkey[t1] # gkey[t2]

C9_Witness ==
    /\ commit_concurrency >= 2
    /\ sem >= 1
    /\ \E t1, t2 \in ThreadIds :
          /\ gpc[t1] = "body"
          /\ gpc[t2] = "key_acquire"
          /\ Truthy(gkey[t1])
          /\ gkey[t1] = gkey[t2]
          /\ glock[t1] = glock[t2]
          /\ key_locks[gkey[t1].str].refcount = 2

(* C10: a caller waiting for its key lock is only ever kept waiting by a   *)
(* holder of the same key; callers with different keys share no lock, so   *)
(* with COMMIT_CONCURRENCY >= 2 they can be inside their bodies together.  *)
C10_OnlySameKeyBlocks ==
    /\ \A t \in ThreadIds :
          (gpc[t] = "key_acquire" /\ lock_holder[glock[t]] # None)
              => gkey[lock_holder[glock[t]]] = gkey[t]
    /\ \A t1, t2 \in ThreadIds :
          (glock[t1] # None /\ glock[t1] = glock[t2]) => gkey[t1] = gkey[t2]

C10_Witness ==
    /\ commit_concurrency >= 2
    /\ \E t1, t2, t3 \in ThreadIds :
          /\ gpc[t1] = "body" /\ gpc[t2] = "body"
          /\ Truthy(gkey[t1]) /\ Truthy(gkey[t2])
          /\ gkey[t1] # gkey[t2]
          /\ gpc[t3] = "key_acquire"
          /\ lock_holder[glock[t3]] = t1

(* C19: for every dict an attempt returns, whichever of its optional error *)
(* and dialog_text fields are present, the worker goes on and the tracker  *)
(* entry is Done for created, Skipped for skipped, Pending for pending and *)
(* Error, with the captured message, for dialog_open or any other status.  *)
C19_OutcomeMappingIsTotal ==
    (item_pc = "done" /\ item_att[1].exc = "") =>
        LET res == item_att[1]
            s == Lower(res.status)
        IN /\ ~item_effect.crash
           /\ item_effect.mark = (CASE s = "created" -> "Done"
                                    [] s = "skipped" -> "Skipped"
                                    [] s = "pending" -> "Pending"
                                    [] OTHER -> "Error")
           /\ s \notin {"created", "skipped", "pending"} =>
                 /\ item_effect.status = "error"
                 /\ item_effect.error \in {res.error, res.dialog_text}

(* C20: when a call raises a fatal session fault (alone or after soft      *)
(* retries) the session is rebuilt once and the item retried once; with a  *)
(* successful rebuild the entry follows the retried call's outcome (Done   *)
(* for created), a failed rebuild or a raising retry gives Error with the  *)
(* recover_failed reason, and the worker continues in every case.          *)
C20_FatalFaultRebuildsAndRetriesOnce ==
    \A k \in 1..(NONFATAL_RETRIES + 1) :
       ( /\ item_pc = "done"
         /\ item_att[k].exc = "FatalWebDriver"
         /\ \A j \in 1..(k - 1) : item_att[j].exc \in {"StaleElement", "NonFatalWebDriver"} )
       => /\ ~item_effect.crash
          /\ item_effect.rebuilds = 1
          /\ IF ~item_reopen_ok
             THEN /\ item_effect.calls = k
                  /\ item_effect.mark = "Error"
                  /\ item_effect.error = "recover_failed"
             ELSE /\ item_effect.calls = k + 1
                  /\ IF item_att[k + 1].exc # ""
                     THEN /\ item_effect.mark = "Error"
                          /\ item_effect.error = "recover_failed"
                     ELSE LET s == Lower(item_att[k + 1].status)
                          IN item_effect.mark = (CASE s = "created" -> "Done"
                                                   [] s = "skipped" -> "Skipped"
                                                   [] s = "pending" -> "Pending"
                                                   [] OTHER -> "Error")

(* a fatal fault, a successful rebuild and a retried call returning created *)
C20_Witness ==
    /\ item_pc = "done"
    /\ item_att[1].exc = "FatalWebDriver"
    /\ item_reopen_ok
    /\ item_att[2].exc = ""
    /\ item_att[2].status = "created"
    /\ item_effect.mark = "Done"
    /\ item_effect.status = "created"
    /\ item_effect.rebuilds = 1
    /\ item_effect.calls = 2

(* C18: an exception of an attempt, or of the handling of its outcome,     *)
(* that is neither a fatal session fault nor a transient interaction fault *)
(* costs one Error row and the worker goes on: a worker that opened its    *)
(* session leaves the round only after the last item of its queue.         *)
C18_ExceptionNeverAbortsShard ==
    \A w \in WorkerIds :
        (wpc[w] \in {"done", "crashed"} /\ wpos[w] >= 1)
            => /\ wpos[w] = Len(pending_list[w]) + 1
               /\ Len(results[w]) = Len(pending_list[w])

(* C14: the ok flag of the result is true exactly when every item of the   *)
(* batch has a final row that is created or skipped; it is false when an   *)
(* item ended in Error or was left unresolved, and a skipped row does not  *)
(* turn it false.                                                          *)
C14_OkIffEveryItemCreatedOrSkipped ==
    rpc = "done" =>
        (result.ok <=>
            \A it \in 1..total :
                \E i \in 1..Len(result.results) :
                    /\ result.results[i].payload = it
                    /\ Lower(result.results[i].status) \in {"created", "skipped"})

C15_KilledWorkerLeavesKTerminalEntries ==
    rpc = "pool" =>
        \A w \in 1..Len(shards) :
            LET doc == tracker[w]
                k == Cardinality({j \in 1..Len(results[w]) :
                                     Lower(results[w][j].status) # "pending"})
            IN /\ w \in track_files
               /\ Len(doc) = Len(shards[w])
               /\ \A j \in 1..Len(shards[w]) :
                     /\ doc[j].index = shards[w][j][1]
                     /\ doc[j].payload = shards[w][j][2]
               /\ Cardinality({j \in 1..Len(doc) : ~IsPendingEntry(doc[j])}) = k

(* C16: in a run started over tracking files left by an earlier run of the *)
(* batch, the queue a worker builds is exactly the Pending entries of its  *)
(* file, also when the file has no Pending entry, and the worker attempts  *)
(* no item whose entry in its file is terminal.                            *)
C16_ResumedWorkerAttemptsExactlyPending ==
    [][\A w \in WorkerIds :
          /\ (wpc[w] = "start" /\ wpc'[w] # "start" /\ w \in track_files)
                => pending_list'[w] = iter_pending_items(tracker[w])
          /\ \A it \in attempted'[w] \ attempted[w] :
                \A j \in 1..Len(tracker[w]) :
                    tracker[w][j].payload = it => IsPendingEntry(tracker[w][j])]_vars

(* C17: a run started over tracking files that show no Pending entry       *)
(* starts no round and makes no attempt, and the result it returns has the *)
(* created / skipped / error counts of those files.                        *)
C17_RerunOverFinishedBatchIsNoOp ==
    [][(/\ round_no = 0
        /\ track_files # {}
        /\ \A w \in track_files : iter_pending_items(tracker[w]) = <<>>)
          => /\ round_no' = 0
             /\ \A w \in WorkerIds : attempted'[w] = {}
             /\ rpc' = "done" =>
                   LET entries == {<<w, j>> \in WorkerIds \X (1..total) : j <= Len(tracker[w])}
                       count(st) == Cardinality({e \in entries : tracker[e[1]][e[2]].status = st})
                   IN /\ result'.rounds_used = 0
                      /\ result'.created = count("Done")
                      /\ result'.skipped = count("Skipped")
                      /\ result'.failed = count("Error")]_vars

(* C12: with max_rounds = R > 0 at most R rounds are started and the       *)
(* rounds-used value of the result is at most R; and a round runs only     *)
(* when some item is still pending (has no row yet, or a pending row).     *)
C12_RoundsBoundedAndNeverIdle ==
    /\ round_no <= MaxRounds
    /\ rpc = "done" => result.rounds_used <= MaxRounds
    /\ rpc = "pool" =>
          \E i \in 1..total :
              \/ i \notin DOMAIN aggregate_results
              \/ Lower(aggregate_results[i].status) = "pending"

(* C11: a thread in the commit sub-step of an attempt (the footer Create / *)
(* Activate submission) is inside the body guarded by commit_gate, so at   *)
(* most COMMIT_CONCURRENCY threads are in the sub-step at once; a thread   *)
(* in any other step of the attempt is not inside the guarded body.        *)
C11_CommitSubStepHoldsGate ==
    /\ \A t \in ThreadIds : apc[t] = "commit" => gpc[t] = "body"
    /\ Cardinality({t \in ThreadIds : apc[t] = "commit"}) <= commit_concurrency
    /\ \A t \in ThreadIds : apc[t] \in {"call", "fill"} => gpc[t] # "body"

(* C21: a worker that cannot open its session returns no row and writes to *)
(* no tracker entry, and at the end of the round every item of its shard   *)
(* has a Pending row of its own in the aggregate and is requeued.          *)
C21_InitFailureLeavesShardPending ==
    [][/\ \A w \in WorkerIds :
            (wpc[w] = "start" /\ wpc'[w] = "done")
                => /\ results'[w] = <<>>
                   /\ tracker'[w] = tracker[w]
       /\ (rpc = "pool" /\ rpc' = "loop") =>
            \A w \in 1..Len(shards) :
                (wpc[w] = "done" /\ wpos[w] = 0) =>
                    \A j \in 1..Len(shards[w]) :
                        LET it == shards[w][j][2]
                        IN /\ it \in DOMAIN aggregate_results'
                           /\ aggregate_results'[it].payload = it
                           /\ Lower(aggregate_results'[it].status) = "pending"
                           /\ \E i \in 1..Len(pending') : pending'[i][2] = it]_vars

(* C22: driver-<w>.json always holds the complete text of one document,    *)
(* the one before the save in progress or the one being saved, and every   *)
(* read of it parses to a complete document with all its entries, also     *)
(* after a writer was killed inside _save_tracking_atomic.                 *)
C22_ReaderSeesWholeDocument ==
    /\ path_file.exists => path_file.len = Len(path_file.doc)
    /\ save_pc = "idle" /\ path_file.exists => Len(path_file.doc) = TrackItems
    /\ loaded.parsed =>
          /\ Len(loaded.items) = TrackItems
          /\ \A j \in 1..TrackItems :
                /\ loaded.items[j].index = j
                /\ loaded.items[j].status \in TrackerStatuses
    /\ path_file.exists => loaded.parsed

(* a killed writer left a partial .tmp, and a read made after the kill     *)
(* found the complete document of the last finished save                   *)
C22_Witness ==
    /\ save_pc = "idle"
    /\ tmp_file.exists
    /\ tmp_file.len < Len(tmp_file.doc)
    /\ tmp_file.doc # path_file.doc
    /\ loaded = _load_tracking(path_file)
    /\ loaded.parsed
    /\ \E j \in 1..TrackItems : loaded.items[j].status # "Pending"

RECURSIVE Concat(_)
Concat(seqs) == IF seqs = <<>> THEN <<>> ELSE Head(seqs) \o Concat(Tail(seqs))

(* C23: for a list of n >= 1 indexed items and workers >= 1, chunk_evenly  *)
(* returns at most `workers` shards, none empty, with sizes that differ by *)
(* at most one, whose concatenation in shard order is the input list.      *)
C23_ChunksEvenAndComplete ==
    rpc = "chunked" =>
        /\ Len(shards) >= 1
        /\ Len(shards) <= workers
        /\ \A w \in 1..Len(shards) : Len(shards[w]) >= 1
        /\ \A w1, w2 \in 1..Len(shards) : Len(shards[w1]) - Len(shards[w2]) <= 1
        /\ Concat(shards) = pending

(* a split that cannot be even: three items over two workers *)
C23_Witness ==
    /\ rpc = "chunked"
    /\ Len(pending) = 3
    /\ workers = 2
    /\ Len(shards) = 2
    /\ Len(shards[1]) = 2
    /\ Len(shards[2]) = 1
    /\ shards[1] \o shards[2] = pending

(* ------------------------------------------------------------------------ *)
(* C24: the key-lock registry holds an entry for a key exactly while at    *)
(* least one keyed commit_gate call for that key is between reserving and  *)
(* releasing it; the entry's reference count equals the number of such     *)
(* calls; with no keyed call in progress the registry is empty.            *)
KeyHolders(key) == {t \in ThreadIds : glock[t] # None /\ gkey[t].str = key}

C24_RegistryCountsCallsInProgress ==
    /\ \A t \in ThreadIds : glock[t] # None => gkey[t].str \in DOMAIN key_locks
    /\ \A key \in DOMAIN key_locks :
          /\ KeyHolders(key) # {}
          /\ key_locks[key].refcount = Cardinality(KeyHolders(key))
    /\ (\A t \in ThreadIds : glock[t] = None) => DOMAIN key_locks = {}

(* two calls for one key are in progress and the entry counts both *)
C24_Witness ==
    \E key \in DOMAIN key_locks :
        /\ key_locks[key].refcount = 2
        /\ Cardinality(KeyHolders(key)) = 2
        /\ \E t \in KeyHolders(key) : gpc[t] = "unreserve"

(* ------------------------------------------------------------------------ *)
(* C25: during a round at most LOGIN_CONCURRENCY workers are inside login  *)
(* at the same time, for the first open and for every rebuild, and every   *)
(* permit taken from login_sem is held by a worker that is inside login:   *)
(* a worker that processes items or waits for the commit gate holds none,  *)
(* also after a login that raised.                                         *)
InLogin == {w \in LoginWorkers : lpc[w] = "login"}

C25_LoginThrottled ==
    /\ Cardinality(InLogin) <= login_cap
    /\ login_cap - login_sem = Cardinality(InLogin)

(* every permit is taken, one of them for a rebuild, while another worker  *)
(* waits for a permit and a third waits for the commit gate                *)
C25_Witness ==
    /\ login_sem = 0
    /\ \E w \in InLogin : lre[w]
    /\ \E w \in LoginWorkers : lpc[w] = "login_wait"
    /\ \E w \in LoginWorkers : lpc[w] = "gate_wait"

(* ------------------------------------------------------------------------ *)
(* C26: when every attempt returns created on its first try, a run over a  *)
(* batch of at least one item uses exactly one round and returns           *)
(* created = total, failed = 0, skipped = 0.                               *)
C26_AllCreatedTakesOneRound ==
    /\ round_no <= 1
    /\ rpc = "done" =>
          /\ result.rounds_used = 1
          /\ result.created = total
          /\ result.failed = 0
          /\ result.skipped = 0
          /\ result.ok

(* four items on two workers, all created in the one round *)
C26_Witness ==
    /\ rpc = "done"
    /\ total = MaxItems + 1
    /\ workers = 2
    /\ result.rounds_used = 1
    /\ result.created = total
    /\ \A i \in 1..total : /\ result.results[i].payload = i
                           /\ Lower(result.results[i].status) = "created"

(* ------------------------------------------------------------------------ *)
(* C27: the final result of stream_events has a row for every index        *)
(* 1..total, so created + skipped + failed = total, and ok is true only if *)
(* every item ended created or skipped, also when a worker fails to open a *)
(* session or crashes.                                                     *)
C27_StreamResultAccountsForEveryIndex ==
    rpc = "done" =>
        /\ Len(result.results) = total
        /\ \A i \in 1..total : result.results[i].index = i
        /\ result.created + result.skipped + result.failed = total
        /\ result.ok =>
              \A i \in 1..total :
                  \E j \in 1..Len(result.results) :
                      /\ result.results[j].index = i
                      /\ Lower(result.results[j].status) \in {"created", "skipped"}

(* C28: stream_events requeues only Pending items: every item handed to a  *)
(* worker at the start of a round has no row yet or a pending row, so an   *)
(* item whose row is terminal is not attempted again.                      *)
C28_StreamRequeuesOnlyPending ==
    [][(rpc = "loop" /\ rpc' = "pool") =>
          \A w \in 1..Len(shards') : \A j \in 1..Len(shards'[w]) :
              LET idx == shards'[w][j][1]
              IN \/ idx \notin DOMAIN aggregate_results
                 \/ Lower(aggregate_results[idx].status) = "pending"]_vars

(* ------------------------------------------------------------------------ *)
(* C29: move_live_to_finished moves the tracker directory of a batch from  *)
(* Live to the Finished archive only when no entry of any of its tracking  *)
(* files is Pending; when an entry is Pending the directory and its files  *)
(* stay as they are, the archive is not touched, and the call reports      *)
(* still_pending.                                                          *)
ArchSomePending ==
    /\ arch_live.exists
    /\ \E w \in DOMAIN arch_live.files : \E j \in 1..Len(arch_live.files[w]) :
          arch_live.files[w][j].status = "Pending"

C29_MovedOnlyWhenNothingPending ==
    [][arch_n' # arch_n =>
          /\ ArchSomePending =>
                /\ arch_live' = arch_live
                /\ arch_finished' = arch_finished
                /\ arch_report' = "still_pending"
          /\ arch_live' # arch_live =>
                /\ ~ArchSomePending
                /\ arch_live' = NoDir
                /\ arch_finished' = arch_live
                /\ arch_report' = "moved"]_vars

(* the second call moved the directory, whose entries are Done, Skipped    *)
(* and Error                                                               *)
C29_Witness ==
    /\ arch_n = 2
    /\ arch_report = "moved"
    /\ ~arch_live.exists
    /\ arch_finished.exists
    /\ \E w \in DOMAIN arch_finished.files : \E j \in 1..Len(arch_finished.files[w]) :
          arch_finished.files[w][j].status = "Error"
    /\ \E w \in DOMAIN arch_finished.files : \E j \in 1..Len(arch_finished.files[w]) :
          arch_finished.files[w][j].status = "Skipped"

(* ------------------------------------------------------------------------ *)
(* C30: the tracking files of a batch stay in the live directory from      *)
(* round to round, and are removed only once none of their entries is      *)
(* Pending: a run that ends with an entry still Pending leaves its         *)
(* tracking files in place.                                                *)
C30_PendingTrackersSurviveTheRun ==
    [][/\ (rpc = "pool" /\ rpc' = "loop") => track_files' = track_files
       /\ (rpc # "done" /\ rpc' = "done"
             /\ \E w \in track_files : \E j \in 1..Len(tracker[w]) :
                   IsPendingEntry(tracker[w][j]))
            => /\ track_files' = track_files
               /\ tracker' = tracker]_vars

(* ------------------------------------------------------------------------ *)
(* C31: pruning and the daily rollup are idempotent: an operation that     *)
(* repeats the one just performed, with the same arguments, leaves the     *)
(* live set, the rollup log and the day totals as they were.               *)
C31_RepeatedOperationChangesNothing ==
    [][daily_last' = daily_last => UNCHANGED <<rollup, final_totals, live_dirs>>]_vars

(* ------------------------------------------------------------------------ *)
(* C32: init_tracking_files leaves every tracking file that already exists *)
(* as it is (same entries, same statuses) and creates only the missing     *)
(* ones, each with one entry per item of its shard, all Pending.           *)
C32_InitKeepsExistingFiles ==
    [][(rpc = "init_files" /\ rpc' = "files_ready") =>
          /\ track_files' = track_files \cup (1..Len(shards))
          /\ \A w \in track_files : tracker'[w] = tracker[w]
          /\ \A w \in (1..Len(shards)) \ track_files :
                /\ Len(tracker'[w]) = Len(shards[w])
                /\ \A j \in 1..Len(shards[w]) :
                      /\ tracker'[w][j].index = shards[w][j][1]
                      /\ tracker'[w][j].payload = shards[w][j][2]
                      /\ tracker'[w][j].status = "Pending"]_vars

(* after the call: a kept file with a terminal entry and other entries     *)
(* than its worker's new shard, next to a file just written                *)
C32_Witness ==
    /\ rpc = "files_ready"
    /\ \E w \in 1..Len(shards) :
          /\ Len(tracker[w]) # Len(shards[w])
          /\ \E j \in 1..Len(tracker[w]) : tracker[w][j].status = "Done"
    /\ \E w \in 1..Len(shards) :
          /\ Len(tracker[w]) = Len(shards[w])
          /\ \A j \in 1..Len(tracker[w]) :
                /\ tracker[w][j].status = "Pending"
                /\ tracker[w][j].index = shards[w][j][1]

(* ------------------------------------------------------------------------ *)
(* C33: on transient interaction faults the same item is called again, up  *)
(* to NONFATAL_RETRIES (2) times, without a session rebuild; only a        *)
(* further transient fault after those soft retries goes to the fatal-     *)
(* fault path: one session rebuild and, when it succeeds, one more call.   *)
TransientFaults == {"StaleElement", "NonFatalWebDriver"}

C33_SoftRetriesBeforeRebuild ==
    item_pc = "done" =>
        /\ \A k \in 1..(NONFATAL_RETRIES + 1) :
              ( /\ \A j \in 1..(k - 1) : item_att[j].exc \in TransientFaults
                /\ item_att[k].exc = "" )
              => /\ item_effect.calls = k
                 /\ item_effect.rebuilds = 0
        /\ (\A j \in 1..(NONFATAL_RETRIES + 1) : item_att[j].exc \in TransientFaults)
              => /\ ~item_effect.crash
                 /\ item_effect.rebuilds = 1
                 /\ item_effect.calls = NONFATAL_RETRIES + (IF item_reopen_ok THEN 2 ELSE 1)

(* two soft retries, the second of which returns created without a rebuild *)
C33_Witness ==
    /\ item_pc = "done"
    /\ item_att[1].exc = "StaleElement"
    /\ item_att[2].exc = "NonFatalWebDriver"
    /\ item_att[3].exc = ""
    /\ item_att[3].status = "created"
    /\ item_effect.calls = 3
    /\ item_effect.rebuilds = 0
    /\ item_effect.mark = "Done"

(* ------------------------------------------------------------------------ *)
(* C40: for each item of a pass _do_one is called at most 4 times (the     *)
(* first call, at most 2 soft retries, at most 1 call after a rebuild) and *)
(* the session is rebuilt at most once, whatever the faults; when the loop *)
(* ends without the worker crashing exactly one row was appended.          *)
C40_CallsAndRebuildsBounded ==
    item_pc = "done" =>
        /\ item_effect.calls >= 1
        /\ item_effect.calls <= NONFATAL_RETRIES + 2
        /\ item_effect.calls - item_effect.rebuilds <= NONFATAL_RETRIES + 1
        /\ item_effect.rebuilds \in {0, 1}
        /\ ~item_effect.crash => (item_rows = 1 /\ item_effect.status # "")

(* the longest pass: two soft retries, a third transient fault, a rebuild  *)
(* and a fourth call that raises, ending with one recover_failed row       *)
C40_Witness ==
    /\ item_pc = "done"
    /\ \A j \in 1..(NONFATAL_RETRIES + 2) : item_att[j].exc # ""
    /\ item_reopen_ok
    /\ item_effect.calls = NONFATAL_RETRIES + 2
    /\ item_effect.rebuilds = 1
    /\ ~item_effect.crash
    /\ item_rows = 1
    /\ item_effect.error = "recover_failed"

(* ------------------------------------------------------------------------ *)
(* C34: a hung call of _do_one is unblocked by the teardown the watchdog   *)
(* performs, and the worker then stays in the item loop: the item goes to  *)
(* its recover path or gets its row, and the worker goes on with the rest  *)
(* of its queue.                                                           *)
C34_HungCallEndsInsideTheLoop ==
    [][(spc = "call" /\ shung /\ ~shung') =>
          /\ spage \notin sopen
          /\ spc' \in {"recreate_kill", "between"}]_vars

(* C35: a worker never has more than one open session and never loses the *)
(* reference to an open one, and when worker_process has returned or       *)
(* raised every session it opened is closed, whatever the interleaving     *)
(* with its watchdog callbacks.                                            *)
C35_SessionsClosedOnExit ==
    /\ Cardinality(sopen) <= 1
    /\ \A x \in sopen : x = sdrv
    /\ spc = "exited" => sopen = {}

(* C36: a worker that finds the stop signal set at its between-items check *)
(* starts no further item, and leaves the signal set for the other workers *)
C36_StopSignalStartsNoItem ==
    [][(spc = "between" /\ stop_event /\ sleft > 0) =>
          /\ spc' # "call"
          /\ stop_event']_vars

(* the workers of the round have all returned or raised *)
RoundOver ==
    /\ rpc = "pool"
    /\ \A w \in 1..Len(shards) : wpc[w] \in {"done", "crashed"}

(* the files of the batch that hold an entry of the index *)
FilesWithIndex(i) ==
    {w \in track_files : \E j \in 1..Len(tracker[w]) : tracker[w][j].index = i}

(* the item of the row is Pending in some tracking file of the batch *)
LeftPending(row) ==
    \E w \in track_files : \E j \in 1..Len(tracker[w]) :
        /\ tracker[w][j].payload = row.payload
        /\ IsPendingEntry(tracker[w][j])

(* C37: at the end of every round each index has its entry in exactly one  *)
(* worker's file, and an item a worker finished in the round with a        *)
(* terminal outcome (created, skipped, error) is not left Pending in any   *)
(* tracking file of the batch.                                             *)
C37_TrackerAgreesWithResults ==
    RoundOver =>
        /\ \A i \in 1..total : Cardinality(FilesWithIndex(i)) = 1
        /\ \A w \in 1..Len(shards) : \A j \in 1..Len(results[w]) :
              Lower(results[w][j].status) \in {"created", "skipped", "error"}
                  => ~LeftPending(results[w][j])

(* C39: when the body guarded by commit_gate raised and the exception has *)
(* reached the caller, the caller holds no key lock and no reservation,    *)
(* its permit is back (the free permits are the capacity less the bodies   *)
(* in progress) and its registry entry is decremented or removed (every    *)
(* entry counts the calls still in progress on its key), as after a        *)
(* normal exit.                                                            *)
C39_RaiseReleasesLikeReturn ==
    \A t \in ThreadIds :
        (gexc[t] /\ gpc[t] = "idle") =>
            /\ glock[t] = None
            /\ \A l \in LockIds : lock_holder[l] # t
            /\ sem = commit_concurrency - Cardinality({u \in ThreadIds : gpc[u] = "body"})
            /\ \A key \in DOMAIN key_locks :
                  key_locks[key].refcount = Cardinality(KeyHolders(key))

(* a keyed call ended by an exception while another call on the same key   *)
(* is waiting for the key lock and a third is in its body                  *)
C39_Witness ==
    \E t1, t2, t3 \in ThreadIds :
        /\ gexc[t1] /\ gpc[t1] = "idle"
        /\ gpc[t2] = "key_acquire"
        /\ key_locks[gkey[t2].str].refcount = 1
        /\ gpc[t3] = "body"

====
